---- MODULE Spec2Model ----
(***************************************************************************)
(* A model of ghn, a terminal dashboard for GitHub notifications.          *)
(*                                                                         *)
(*   - the command parser of src/commands.rs (parse_commands and helpers), *)
(*     as operators on a parser state and as a machine that consumes one   *)
(*     character per step (SpecParse, SpecParseOpen);                      *)
(*   - the event loop of src/main.rs with the override ledger: the poller  *)
(*     delivering refreshes, set_data with apply_notification_overrides,   *)
(*     submit_commands with apply_optimistic_update (Spec);                *)
(*   - the command line over lists of notifications and of the user's own  *)
(*     pull requests: build_pending_map and apply_optimistic_update        *)
(*     (SpecScreen);                                                       *)
(*   - the executor, execute_commands with execute_action (SpecExecute),   *)
(*     the event loop when its calls may fail (SpecRecover), and           *)
(*     handle_command_result on any summary (SpecResult);                  *)
(*   - the poller's loop with the refresh channel (SpecPoller);            *)
(*   - the Review action, run by the event loop in nvim (SpecReview);      *)
(*   - the alias table of build_target_map (SpecAlias);                    *)
(*   - the ignore set of the user's pull requests (SpecIgnore) and the     *)
(*     ignore file that append_ignored_pr writes (SpecAppend);             *)
(*   - submissions that remove several entries at once (SpecBatch);        *)
(*   - fetches that fail while a command is on the line (SpecFailure).     *)
(***************************************************************************)
EXTENDS Integers, Sequences, FiniteSets, TLC

VARIABLES
    \* ---- parse_commands (src/commands.rs) ----
    consumed,              \* the characters of `input` read so far
    notification_count,    \* the entity count handed to the parser
    targets,               \* the alias table: char -> sequence of indices
    current_digits,        \* String: pending digit buffer
    range_start,           \* Option<usize>: <<>> is None, <<v>> is Some(v)
    indices,               \* Vec<usize>: the working index selection
    after_action,          \* bool
    result,                \* HashMap<usize, Vec<Action>>
    \* ---- AppState and the tasks around it (src/main.rs) ----
    notifications,         \* Vec<Notification>, the visible list
    my_prs,                \* Vec<MyPullRequest>, the visible list
    include_read,          \* bool (the view: FALSE is unread-only)
    notification_overrides,\* HashMap<String, NotificationOverride>
    ignored_prs,           \* HashSet<String>
    input,                 \* the text of the command line (AppState::command_text)
    pending,               \* HashMap<usize, Vec<Action>>, the previewed map
    event_rx,              \* the mpsc channel of AppEvent, oldest first
    refresh_rx,            \* the mpsc channel of refresh requests: how many wait
    exec_tasks,            \* the spawned executor tasks still running, oldest first
    now,                   \* chrono::Utc::now().timestamp()
    status,                \* Option<String>, the status line
    status_sticky,         \* bool
    review_tasks,          \* the spawned tasks that have an AppEvent::Review
                           \* to send, oldest first
    \* ---- history ----
    last_merge,            \* the fetched list and the ledger that the latest
                           \* step handed to set_data; None after any other step
    stale_data,            \* count: how many AppEvent::Data in the channel were
                           \* sent before the latest submit_commands; ids: the
                           \* notifications that submit acted on
    calls,                 \* the calls that executor tasks made of the remote
                           \* service, the browser, the clipboard and the ignore
                           \* file, each with its outcome (SpecExecute and
                           \* SpecRecover keep this record)
    poller,                \* the poller task: where it is in its loop and, as
                           \* history, how its fetches relate to the refresh
                           \* requests (SpecPoller keeps this record)
    ignores,               \* the ignore list on disk, the lock that guards it
                           \* and the calls of append_ignored_pr under way
                           \* (SpecAppend keeps this record)
    loop_calls             \* the calls that the event loop itself made of the
                           \* file system and of other programs

parser_vars == <<consumed, notification_count, targets, current_digits,
                 range_start, indices, after_action, result>>
app_vars == <<notifications, my_prs, include_read, notification_overrides,
              ignored_prs, input, pending, event_rx, exec_tasks, now,
              last_merge, stale_data, refresh_rx, calls,
              status, status_sticky, review_tasks, loop_calls, poller, ignores>>
vars == <<parser_vars, app_vars>>

\* ------------------------------------------------------------------------
\* Bounds of the model
\* ------------------------------------------------------------------------
MaxLen == 4            \* longest input the parser machine reads
MaxTime == 2           \* the clock and the server's timestamps run over 1..MaxTime
MaxInFlightData == 1   \* refreshes fetched and not yet handled by the event loop
MaxExecTasks == 1      \* executor tasks running or not yet reported at once
MaxCalls == 1          \* calls on record before the last executor task starts
MaxReviews == 1        \* tasks that have an AppEvent::Review to send at once
MaxCounted == 2        \* actions a summary counts as succeeded, and as failed

\* mpsc::channel::<AppEvent>(4)
EventCapacity == 4

\* mpsc::channel::<()>(1)
RefreshCapacity == 1

\* ------------------------------------------------------------------------
\* Small helpers
\* ------------------------------------------------------------------------
None == <<>>
Some(v) == <<v>>
EmptyMap == <<>>

Range(s) == { s[i] : i \in 1..Len(s) }
Contains(s, v) == \E i \in 1..Len(s) : s[i] = v
Count(s, v) == Cardinality({ i \in 1..Len(s) : s[i] = v })
Min(a, b) == IF a <= b THEN a ELSE b
Max(a, b) == IF a <= b THEN b ELSE a
SetMax(S) == CHOOSE m \in S : \A k \in S : k <= m

\* ------------------------------------------------------------------------
\* src/types.rs: Action
\* ------------------------------------------------------------------------
Actions == {"Open", "Yank", "Read", "Done", "Unsubscribe", "Review", "Branch"}

\* Action::from_char: None is <<>>, Some(a) is <<a>>
Action_from_char(ch) ==
    CASE ch = "o" -> Some("Open")
      [] ch = "y" -> Some("Yank")
      [] ch = "r" -> Some("Read")
      [] ch = "d" -> Some("Done")
      [] ch = "q" -> Some("Unsubscribe")
      [] ch = "p" -> Some("Review")
      [] ch = "b" -> Some("Branch")
      [] OTHER    -> None

\* ------------------------------------------------------------------------
\* src/commands.rs
\* ------------------------------------------------------------------------
is_target_char(ch) == ch \in {"m", "c", "f", "?", "a", "x", "u"}

is_ascii_digit(ch) == ch \in {"0", "1", "2", "3", "4", "5", "6", "7", "8", "9"}

\* ch.to_digit(10).unwrap_or(0)
to_digit(ch) ==
    CASE ch = "0" -> 0 [] ch = "1" -> 1 [] ch = "2" -> 2 [] ch = "3" -> 3
      [] ch = "4" -> 4 [] ch = "5" -> 5 [] ch = "6" -> 6 [] ch = "7" -> 7
      [] ch = "8" -> 8 [] ch = "9" -> 9 [] OTHER -> 0

\* The loop of longest_valid_prefix from character idx (0-based) on; best is
\* None or Some((value, len)), written <<>> or <<value, len>>.  The checked
\* multiplication and addition cannot overflow here: the loop leaves as soon
\* as value exceeds notification_count, so value stays below 10 * count + 10.
RECURSIVE longest_valid_prefix_loop(_, _, _, _, _)
longest_valid_prefix_loop(digits, count, idx, value, best) ==
    IF idx >= Len(digits) THEN best
    ELSE LET next  == value * 10 + to_digit(digits[idx + 1])
             best2 == IF next >= 1 /\ next <= count
                      THEN <<next, idx + 1>> ELSE best
         IN IF next > count /\ next # 0
            THEN best2
            ELSE longest_valid_prefix_loop(digits, count, idx + 1, next, best2)

\* A variant that takes one digit at a time instead of the longest prefix;
\* C1_GreedySplit tells it from longest_valid_prefix.
single_digit_prefix(digits, count) ==
    IF digits # <<>> /\ to_digit(digits[1]) >= 1 /\ to_digit(digits[1]) <= count
    THEN <<to_digit(digits[1]), 1>>
    ELSE None

longest_valid_prefix(digits, count) ==
    longest_valid_prefix_loop(digits, count, 0, 0, None)

RECURSIVE split_digits_loop(_, _, _)
split_digits_loop(remaining, count, acc) ==
    IF remaining = <<>> THEN acc
    ELSE LET found == longest_valid_prefix(remaining, count)
         IN IF found = None THEN acc
            ELSE split_digits_loop(
                     SubSeq(remaining, found[2] + 1, Len(remaining)),
                     count, Append(acc, found[1]))

\* A variant that drops a digit with which no valid prefix starts and goes
\* on with the rest; C37_SplitStops tells it from split_digits.
RECURSIVE split_digits_skipping_loop(_, _, _)
split_digits_skipping_loop(remaining, count, acc) ==
    IF remaining = <<>> THEN acc
    ELSE LET found == longest_valid_prefix(remaining, count)
         IN IF found = None
            THEN split_digits_skipping_loop(Tail(remaining), count, acc)
            ELSE split_digits_skipping_loop(
                     SubSeq(remaining, found[2] + 1, Len(remaining)),
                     count, Append(acc, found[1]))

split_digits_skipping(digits, count) == split_digits_skipping_loop(digits, count, <<>>)

split_digits(digits, count) == split_digits_loop(digits, count, <<>>)

push_index(idxs, index, count) ==
    IF index >= 1 /\ index <= count THEN Append(idxs, index) ELSE idxs

\* for index in low..=high { push_index(..) }
RECURSIVE push_each_from(_, _, _, _)
push_each_from(idxs, low, high, count) ==
    IF low > high THEN idxs
    ELSE push_each_from(push_index(idxs, low, count), low + 1, high, count)

\* A variant that does not order the endpoints; C2_RangeOfValidEndpoints
\* tells it from push_range.
push_range_unordered(idxs, start, end, count) ==
    push_each_from(idxs, start, end, count)

push_range(idxs, start, end, count) ==
    push_each_from(idxs, Min(start, end), Max(start, end), count)

\* for index in seq { push_index(..) }
RECURSIVE push_all(_, _, _)
push_all(idxs, seq, count) ==
    IF seq = <<>> THEN idxs
    ELSE push_all(push_index(idxs, Head(seq), count), Tail(seq), count)

\* The three pieces of parser state the finalize functions take by reference.
Pending(digits, start, idxs) ==
    [current_digits |-> digits, range_start |-> start, indices |-> idxs]

finalize_pending(p, count) ==
    IF p.current_digits = <<>>
    THEN IF p.range_start # None
         THEN Pending(<<>>, None, push_index(p.indices, p.range_start[1], count))
         ELSE p
    ELSE LET parsed == split_digits(p.current_digits, count)
         IN IF p.range_start # None
            THEN IF parsed # <<>>
                 THEN Pending(<<>>, None,
                          push_all(push_range(p.indices, p.range_start[1],
                                              Head(parsed), count),
                                   Tail(parsed), count))
                 ELSE Pending(<<>>, None,
                          push_index(p.indices, p.range_start[1], count))
            ELSE Pending(<<>>, None, push_all(p.indices, parsed, count))

finalize_range_start(p, count) ==
    IF p.current_digits = <<>> THEN p
    ELSE LET parsed == split_digits(p.current_digits, count)
         IN IF parsed = <<>>
            THEN Pending(<<>>, None, p.indices)
            ELSE Pending(<<>>, Some(parsed[Len(parsed)]),
                     push_all(p.indices, SubSeq(parsed, 1, Len(parsed) - 1), count))

\* The state of the loop of parse_commands.
ParserState(digits, start, idxs, after, res) ==
    [current_digits |-> digits, range_start |-> start, indices |-> idxs,
     after_action |-> after, result |-> res]

InitialParserState == ParserState(<<>>, None, <<>>, FALSE, EmptyMap)

PendingOf(st) == Pending(st.current_digits, st.range_start, st.indices)

WithPending(st, p, after) ==
    ParserState(p.current_digits, p.range_start, p.indices, after, st.result)

\* if after_action { indices.clear(); range_start = None; ... }
clear_after_action(st) ==
    IF st.after_action
    THEN ParserState(<<>>, None, <<>>, FALSE, st.result)
    ELSE st

\* A variant that keeps the selection of the previous action;
\* C4_DigitStartsNewSelection tells it from on_digit.
on_digit_keeping_selection(st, ch) ==
    [st EXCEPT !.current_digits = Append(@, ch)]

\* ch.is_ascii_digit()
on_digit(st, ch) ==
    LET s == clear_after_action(st)
    IN [s EXCEPT !.current_digits = Append(@, ch)]

\* ch == '-'
on_dash(st, count) ==
    IF st.after_action THEN st
    ELSE WithPending(st, finalize_range_start(PendingOf(st), count), st.after_action)

\* ch == ' ' || ch == ','
on_separator(st, count) ==
    WithPending(st, finalize_pending(PendingOf(st), count), st.after_action)

\* for index in group { if !indices.contains(index) { indices.push(*index) } }
RECURSIVE union_group(_, _)
union_group(idxs, group) ==
    IF group = <<>> THEN idxs
    ELSE union_group(IF Contains(idxs, Head(group)) THEN idxs
                     ELSE Append(idxs, Head(group)),
                     Tail(group))

\* A variant that keeps the selection of the action before; C38_AliasSelection
\* tells it from on_target.
on_target_keeping_selection(st, ch, count, table) ==
    LET p == finalize_pending(PendingOf(st), count)
        q == IF ch \in DOMAIN table
             THEN Pending(p.current_digits, p.range_start,
                          union_group(p.indices, table[ch]))
             ELSE p
    IN WithPending(st, q, FALSE)

\* is_target_char(ch)
on_target(st, ch, count, table) ==
    LET s == clear_after_action(st)
        p == finalize_pending(PendingOf(s), count)
        q == IF ch \in DOMAIN table
             THEN Pending(p.current_digits, p.range_start,
                          union_group(p.indices, table[ch]))
             ELSE p
    IN WithPending(s, q, s.after_action)

\* result.entry(*index).or_default().push(action)
push_action(res, index, action) ==
    IF index \in DOMAIN res
    THEN [res EXCEPT ![index] = Append(@, action)]
    ELSE res @@ (index :> <<action>>)

\* for index in &indices { result.entry(*index).or_default().push(action) }
RECURSIVE push_action_all(_, _, _)
push_action_all(res, idxs, action) ==
    IF idxs = <<>> THEN res
    ELSE push_action_all(push_action(res, Head(idxs), action), Tail(idxs), action)

\* A variant that uses the selection up; C3_ActionsAppendToSelection tells it
\* from on_action.
on_action_consuming_selection(st, action, count) ==
    LET p == finalize_pending(PendingOf(st), count)
    IN ParserState(<<>>, None, <<>>, TRUE,
                   push_action_all(st.result, p.indices, action))

\* Action::from_char(ch) is Some(action)
on_action(st, action, count) ==
    LET p == finalize_pending(PendingOf(st), count)
    IN ParserState(p.current_digits, p.range_start, p.indices, TRUE,
                   push_action_all(st.result, p.indices, action))

\* A variant that skips the character; C5_InvalidCharResets tells it from
\* on_other.
on_other_skipped(st) == st

\* any other character
on_other(st) ==
    ParserState(<<>>, None, <<>>, FALSE, st.result)

\* One iteration of `for ch in input.chars()`.
parse_char(st, ch, count, table) ==
    IF is_ascii_digit(ch) THEN on_digit(st, ch)
    ELSE IF ch = "-" THEN on_dash(st, count)
    ELSE IF ch = " " \/ ch = "," THEN on_separator(st, count)
    ELSE IF is_target_char(ch) THEN on_target(st, ch, count, table)
    ELSE IF Action_from_char(ch) # None
         THEN on_action(st, Action_from_char(ch)[1], count)
    ELSE on_other(st)

RECURSIVE parse_loop(_, _, _, _)
parse_loop(st, text, count, table) ==
    IF text = <<>> THEN st
    ELSE parse_loop(parse_char(st, Head(text), count, table),
                    Tail(text), count, table)

parse_commands(text, count, table) ==
    parse_loop(InitialParserState, text, count, table).result

\* ------------------------------------------------------------------------
\* src/types.rs: Notification, MyPullRequest, Subject
\* ------------------------------------------------------------------------
\* Subject: status is the set of SubjectStatus flags, review_status an Option.
Subject(kind, flags, review_status, url) ==
    [kind |-> kind, status |-> flags, review_status |-> review_status, url |-> url]

Notification(id, unread, updated_at, subject) ==
    [id |-> id, unread |-> unread, updated_at |-> updated_at, subject |-> subject]

MyPullRequest(id, updated_at, subject) ==
    [id |-> id, updated_at |-> updated_at, url |-> subject.url, subject |-> subject]

\* ------------------------------------------------------------------------
\* src/ui.rs: build_pending_map
\* ------------------------------------------------------------------------
\* STATUS_ORDER filtered by subject.status.contains
ordered_statuses(subject) ==
    SelectSeq(<<"Draft", "Merged", "Closed">>, LAMBDA st : st \in subject.status)

\* A variant that shows a pending review whatever the status; C29_AliasTable
\* tells it from effective_review_status.
review_status_as_reported(subject) == subject.review_status

effective_review_status(subject) ==
    IF subject.review_status = None THEN None
    ELSE IF /\ subject.review_status[1] = "ReviewRequired"
            /\ subject.status \cap {"Merged", "Closed", "Draft"} # {}
         THEN None
         ELSE subject.review_status

\* targets.entry(key).or_default().push(index)
push_target(table, key, index) ==
    IF key \in DOMAIN table
    THEN [table EXCEPT ![key] = Append(@, index)]
    ELSE table @@ (key :> <<index>>)

RECURSIVE push_status_keys(_, _, _)
push_status_keys(table, statuses, index) ==
    IF statuses = <<>> THEN table
    ELSE push_status_keys(
             push_target(table,
                         CASE Head(statuses) = "Merged" -> "m"
                           [] Head(statuses) = "Closed" -> "c"
                           [] Head(statuses) = "Draft"  -> "f",
                         index),
             Tail(statuses), index)

push_status_targets(table, index, subject) ==
    LET t == push_status_keys(table, ordered_statuses(subject), index)
        review == effective_review_status(subject)
    IN IF review = None THEN t
       ELSE push_target(t,
                        CASE review[1] = "ReviewRequired"   -> "?"
                          [] review[1] = "Approved"         -> "a"
                          [] review[1] = "ChangesRequested" -> "x",
                        index)

\* A variant that files every notification under 'u', read or not;
\* C20_UnreadDone tells it from target_map_notifications.
RECURSIVE target_map_every_notification(_, _, _)
target_map_every_notification(table, notifs, idx) ==
    IF idx >= Len(notifs) THEN table
    ELSE target_map_every_notification(
             push_status_targets(push_target(table, "u", idx + 1), idx + 1,
                                 notifs[idx + 1].subject),
             notifs, idx + 1)

RECURSIVE target_map_notifications(_, _, _)
target_map_notifications(table, notifs, idx) ==
    IF idx >= Len(notifs) THEN table
    ELSE LET n == notifs[idx + 1]
             t == IF n.unread THEN push_target(table, "u", idx + 1) ELSE table
         IN target_map_notifications(push_status_targets(t, idx + 1, n.subject),
                                     notifs, idx + 1)

RECURSIVE target_map_my_prs(_, _, _, _)
target_map_my_prs(table, prs, offset, idx) ==
    IF idx >= Len(prs) THEN table
    ELSE target_map_my_prs(
             push_status_targets(table, offset + idx + 1, prs[idx + 1].subject),
             prs, offset, idx + 1)

build_target_map(notifs, prs) ==
    target_map_my_prs(target_map_notifications(EmptyMap, notifs, 0),
                      prs, Len(notifs), 0)

\* A variant that compares the kind as spelled; C15_NotificationFilter tells
\* it from is_pull_request_kind.
is_pull_request_kind_exact(kind) == kind = "PullRequest"

\* kind.eq_ignore_ascii_case("pullrequest")
is_pull_request_kind(kind) ==
    kind \in {"PullRequest", "pullrequest", "PULLREQUEST", "pullRequest"}

\* A variant that takes the index just past the last pull request for one
\* more pull request; C35_SameResolution tells it from pending_entry.
pending_entry_past_end(index, notifs, prs) ==
    IF index <= Len(notifs)
    THEN IF index >= 1
         THEN Some([entry |-> "Notification",
                    is_pull_request |-> is_pull_request_kind(notifs[index].subject.kind)])
         ELSE None
    ELSE IF index - (Len(notifs) + 1) <= Len(prs)
         THEN Some([entry |-> "MyPullRequest", is_pull_request |-> TRUE])
         ELSE None

\* PendingEntry of an index, None when the index names nothing.
pending_entry(index, notifs, prs) ==
    IF index <= Len(notifs)
    THEN IF index >= 1
         THEN Some([entry |-> "Notification",
                    is_pull_request |-> is_pull_request_kind(notifs[index].subject.kind)])
         ELSE None
    ELSE IF index - (Len(notifs) + 1) < Len(prs)
         THEN Some([entry |-> "MyPullRequest", is_pull_request |-> TRUE])
         ELSE None

\* A variant that lets every action through for one of the user's pull
\* requests; C14_PullRequestFilter tells it from action_allowed.
action_allowed_on_any_entry(action, entry) ==
    IF entry.entry = "Notification"
    THEN IF action = "Branch" THEN entry.is_pull_request ELSE TRUE
    ELSE TRUE

action_allowed(action, entry) ==
    IF entry.entry = "Notification"
    THEN IF action = "Branch" THEN entry.is_pull_request ELSE TRUE
    ELSE action \in {"Open", "Yank", "Unsubscribe", "Review", "Branch"}

filter_pending_actions(parsed, notifs, prs) ==
    LET allowed(index) ==
            SelectSeq(parsed[index],
                      LAMBDA a : action_allowed(a, pending_entry(index, notifs, prs)[1]))
        kept == { index \in DOMAIN parsed :
                    /\ pending_entry(index, notifs, prs) # None
                    /\ allowed(index) # <<>> }
    IN [index \in kept |-> allowed(index)]

build_pending_map(text, notifs, prs) ==
    filter_pending_actions(
        parse_commands(text, Len(notifs) + Len(prs), build_target_map(notifs, prs)),
        notifs, prs)

\* ------------------------------------------------------------------------
\* src/main.rs: the override ledger and set_data
\* ------------------------------------------------------------------------
\* RFC 3339 strings of the first seconds of the epoch, by their timestamp.
TimeStrings ==
    << "1970-01-01T00:00:01Z", "1970-01-01T00:00:02Z", "1970-01-01T00:00:03Z",
       "1970-01-01T00:00:04Z", "1970-01-01T00:00:05Z", "1970-01-01T00:00:06Z" >>

\* chrono::DateTime::parse_from_rfc3339(value).map(timestamp).unwrap_or(0)
parse_updated_at(value) ==
    IF \E t \in 1..Len(TimeStrings) : TimeStrings[t] = value
    THEN CHOOSE t \in 1..Len(TimeStrings) : TimeStrings[t] = value
    ELSE 0

\* Where a stable descending sort puts x among the already sorted items: after
\* every item whose timestamp is not smaller.
RECURSIVE insert_by_updated_at(_, _)
insert_by_updated_at(sorted, x) ==
    IF sorted = <<>> THEN <<x>>
    ELSE IF parse_updated_at(Head(sorted).updated_at) >= parse_updated_at(x.updated_at)
         THEN <<Head(sorted)>> \o insert_by_updated_at(Tail(sorted), x)
         ELSE <<x>> \o sorted

RECURSIVE sort_loop(_, _)
sort_loop(sorted, rest) ==
    IF rest = <<>> THEN sorted
    ELSE sort_loop(insert_by_updated_at(sorted, Head(rest)), Tail(rest))

\* items.sort_by(|a, b| b_ts.cmp(&a_ts)): stable, newest first
sort_by_updated_at(items) == sort_loop(<<>>, items)

NotificationOverride(state, marked_at) == [state |-> state, marked_at |-> marked_at]

RemoveKeys(map, keys) == [k \in DOMAIN map \ keys |-> map[k]]

\* A variant that takes equal timestamps for new activity;
\* C10_RemovedWhenNewerOrAcknowledged tells it from has_new_activity.
has_no_older_activity(updated_at, marked_at) == updated_at >= marked_at

\* `updated_at > override_state.marked_at`: the server has seen activity the
\* override does not know of.
has_new_activity(updated_at, marked_at) == updated_at > marked_at

\* What one notification contributes to the merged list (`merged`) and whether
\* its id goes to clear_ids (`clear`).
MergeStep(merged, clear) == [merged |-> merged, clear |-> clear]

\* A variant that leaves the unread flag as reported; C9_ReadOverrideMerge
\* tells it from read_override.
read_override_as_reported(n, incl_read) ==
    IF ~incl_read THEN MergeStep(<<>>, FALSE)
    ELSE MergeStep(<<n>>, ~n.unread)

\* The arm NotificationOverrideState::Read
read_override(n, incl_read) ==
    LET server_unread == n.unread
        forced == IF server_unread THEN [n EXCEPT !.unread = FALSE] ELSE n
    IN IF ~incl_read THEN MergeStep(<<>>, FALSE)
       ELSE MergeStep(<<forced>>, ~server_unread)

\* A variant that shows the notification; C7_SuppressUntilNewActivity tells it
\* from suppress_override.
suppress_override_shown(n) == MergeStep(<<n>>, FALSE)

\* The arm NotificationOverrideState::Suppress
suppress_override(n) == MergeStep(<<>>, FALSE)

\* The body of `for mut notification in notifications`
merge_notification(overrides, incl_read, n) ==
    IF n.id \notin DOMAIN overrides THEN MergeStep(<<n>>, FALSE)
    ELSE IF has_new_activity(parse_updated_at(n.updated_at), overrides[n.id].marked_at)
    THEN MergeStep(<<n>>, TRUE)
    ELSE IF overrides[n.id].state = "Read" THEN read_override(n, incl_read)
    ELSE suppress_override(n)

\* The loop of apply_notification_overrides: every lookup reads the ledger as
\* it is on entry; clear_ids are removed after the loop.
RECURSIVE overrides_loop(_, _, _, _, _)
overrides_loop(overrides, incl_read, rest, merged, clear_ids) ==
    IF rest = <<>>
    THEN [merged |-> merged, overrides |-> RemoveKeys(overrides, clear_ids)]
    ELSE LET n == Head(rest)
             step == merge_notification(overrides, incl_read, n)
         IN overrides_loop(overrides, incl_read, Tail(rest),
                           merged \o step.merged,
                           IF step.clear THEN clear_ids \cup {n.id} ELSE clear_ids)

\* A variant that shows every refresh as fetched, the ledger unused;
\* C12_StaleRefreshNotNewerNeverUndoes tells it from
\* apply_notification_overrides.
overrides_not_applied(overrides, incl_read, notifs) ==
    [merged |-> notifs, overrides |-> overrides]

\* AppState::apply_notification_overrides
apply_notification_overrides(overrides, incl_read, notifs) ==
    IF DOMAIN overrides = {}
    THEN [merged |-> notifs, overrides |-> overrides]
    ELSE overrides_loop(overrides, incl_read, notifs, <<>>, {})

\* The fields of AppState the reconciler works on.
AppData(notifs, prs, overrides, ignored) ==
    [notifications |-> notifs, my_prs |-> prs,
     notification_overrides |-> overrides, ignored_prs |-> ignored]

\* A variant that shows every pull request the server reports;
\* C30_IgnoredStaysHidden tells it from set_data.
set_data_unfiltered(app, incl_read, fetched_notifications, fetched_my_prs) ==
    LET sorted  == sort_by_updated_at(fetched_notifications)
        applied == apply_notification_overrides(app.notification_overrides,
                                                incl_read, sorted)
    IN AppData(applied.merged, sort_by_updated_at(fetched_my_prs),
               applied.overrides, app.ignored_prs)

\* AppState::set_data, up to update_pending
set_data(app, incl_read, fetched_notifications, fetched_my_prs) ==
    LET sorted  == sort_by_updated_at(fetched_notifications)
        kept    == SelectSeq(fetched_my_prs, LAMBDA pr : pr.url \notin app.ignored_prs)
        applied == apply_notification_overrides(app.notification_overrides,
                                                incl_read, sorted)
    IN AppData(applied.merged, sort_by_updated_at(kept),
               applied.overrides, app.ignored_prs)

\* ------------------------------------------------------------------------
\* src/main.rs: apply_optimistic_update
\* ------------------------------------------------------------------------
\* A variant in which the last action wins; C8_SuppressDominates tells it from
\* record_override_state.
last_override_state(current, next) == Some(next)

record_override_state(current, next) ==
    IF current = Some("Suppress") THEN Some("Suppress")
    ELSE IF next = "Suppress" THEN Some("Suppress")
    ELSE Some("Read")

record_notification_override(overrides, notification_id, state, time) ==
    IF notification_id \in DOMAIN overrides
    THEN [overrides EXCEPT ![notification_id] =
            NotificationOverride(
                IF @.state = "Suppress" \/ state = "Suppress" THEN "Suppress" ELSE "Read",
                time)]
    ELSE overrides @@ (notification_id :> NotificationOverride(state, time))

\* A variant in which Open and Read leave the notification in the list in
\* either view; C17_OptimisticNotification tells it from notification_actions.
RECURSIVE notification_actions_keeping_read(_, _, _)
notification_actions_keeping_read(acc, actions, incl_read) ==
    IF actions = <<>> THEN acc
    ELSE LET a == Head(actions)
             next ==
                IF a \in {"Open", "Read"}
                THEN [unread |-> FALSE,
                      remove |-> acc.remove,
                      override_state |-> record_override_state(acc.override_state, "Read")]
                ELSE IF a \in {"Done", "Unsubscribe"}
                THEN [unread |-> FALSE,
                      remove |-> TRUE,
                      override_state |-> record_override_state(acc.override_state, "Suppress")]
                ELSE acc
         IN notification_actions_keeping_read(next, Tail(actions), incl_read)

\* `for action in actions` on one notification: acc is (unread, remove,
\* override_state).
RECURSIVE notification_actions(_, _, _)
notification_actions(acc, actions, incl_read) ==
    IF actions = <<>> THEN acc
    ELSE LET a == Head(actions)
             next ==
                IF a \in {"Open", "Read"}
                THEN [unread |-> FALSE,
                      remove |-> IF ~incl_read THEN TRUE ELSE acc.remove,
                      override_state |-> record_override_state(acc.override_state, "Read")]
                ELSE IF a \in {"Done", "Unsubscribe"}
                THEN [unread |-> FALSE,
                      remove |-> TRUE,
                      override_state |-> record_override_state(acc.override_state, "Suppress")]
                ELSE acc
         IN notification_actions(next, Tail(actions), incl_read)

\* The state of the loop `for (index, actions) in commands`.
UpdateState(app, remove_notifications, remove_my_prs) ==
    [app |-> app, remove_notifications |-> remove_notifications,
     remove_my_prs |-> remove_my_prs]

\* One iteration of that loop; notification_count is the length of the list
\* on entry of apply_optimistic_update.
optimistic_entry(us, index, actions, incl_read, count, time) ==
    IF index = 0 THEN us
    ELSE IF index <= count
    THEN IF index - 1 >= Len(us.app.notifications) THEN us
         ELSE LET n   == us.app.notifications[index]
                  acc == notification_actions(
                             [unread |-> n.unread, remove |-> FALSE, override_state |-> None],
                             actions, incl_read)
                  app2 == [us.app EXCEPT
                             !.notifications[index].unread = acc.unread,
                             !.notification_overrides =
                                 IF acc.override_state = None THEN @
                                 ELSE record_notification_override(
                                          @, n.id, acc.override_state[1], time)]
              IN UpdateState(app2,
                     IF acc.remove THEN Append(us.remove_notifications, index - 1)
                     ELSE us.remove_notifications,
                     us.remove_my_prs)
    ELSE LET idx == index - (count + 1)
         IN IF idx >= Len(us.app.my_prs) THEN us
            ELSE IF Contains(actions, "Unsubscribe")
            THEN UpdateState(
                     [us.app EXCEPT !.ignored_prs = @ \cup {us.app.my_prs[idx + 1].url}],
                     us.remove_notifications,
                     Append(us.remove_my_prs, idx))
            ELSE us

RECURSIVE optimistic_loop(_, _, _, _, _, _)
optimistic_loop(us, commands, order, incl_read, count, time) ==
    IF order = <<>> THEN us
    ELSE optimistic_loop(
             optimistic_entry(us, Head(order), commands[Head(order)], incl_read, count, time),
             commands, Tail(order), incl_read, count, time)

\* vec.remove(idx), idx 0-based
RemoveAt(seq, idx) == SubSeq(seq, 1, idx) \o SubSeq(seq, idx + 2, Len(seq))

\* A variant that takes as many entries as asked from the front of the list;
\* C18_OptimisticIgnore tells it from remove_descending.
RECURSIVE remove_from_front(_, _)
remove_from_front(seq, idxs) ==
    IF idxs = {} \/ seq = <<>> THEN seq
    ELSE remove_from_front(Tail(seq), idxs \ {SetMax(idxs)})

\* A variant that removes the positions lowest first, so that each removal
\* shifts the entries the later positions were meant for; C34_BatchRemoval
\* tells it from remove_descending.
RECURSIVE remove_ascending(_, _)
remove_ascending(seq, idxs) ==
    IF idxs = {} THEN seq
    ELSE LET low == CHOOSE i \in idxs : \A j \in idxs : i <= j
         IN remove_ascending(IF low < Len(seq) THEN RemoveAt(seq, low) ELSE seq,
                             idxs \ {low})

\* Remove the positions of `idxs` one by one, highest first, each only if it
\* is still inside the list.
RECURSIVE remove_descending(_, _)
remove_descending(seq, idxs) ==
    IF idxs = {} THEN seq
    ELSE LET top == SetMax(idxs)
         IN remove_descending(IF top < Len(seq) THEN RemoveAt(seq, top) ELSE seq,
                              idxs \ {top})

\* A variant that leaves the lists and the ledger as they are until a
\* refresh shows what the executor did; C25_UpdateBeforeDispatch tells it
\* from apply_optimistic_update.
update_left_to_refresh(app, commands, order, incl_read, time) == app

\* apply_optimistic_update; `order` is the order in which the HashMap yields
\* its entries.
apply_optimistic_update(app, commands, order, incl_read, time) ==
    LET us == optimistic_loop(UpdateState(app, <<>>, <<>>), commands, order,
                              incl_read, Len(app.notifications), time)
    IN [us.app EXCEPT
          !.notifications = remove_descending(@, Range(us.remove_notifications)),
          !.my_prs = remove_descending(@, Range(us.remove_my_prs))]

\* ------------------------------------------------------------------------
\* src/main.rs: execute_commands
\* ------------------------------------------------------------------------
\* Notification::node_id and Notification::subject_id, which the model keeps
\* as functions of the thread id; for "n5" the server sent no subject.
node_id(n) == <<"node", n.id>>

subject_id(n) == IF n.id = "n5" THEN None ELSE Some(<<"subject", n.id>>)

\* enum EntrySnapshot
EntrySnapshot(kind, item) == [entry |-> kind, item |-> item]

\* EntrySnapshot::url
entry_url(entry) == entry.item.subject.url

entry_for_index(index, notifs, prs) ==
    IF index = 0 THEN None
    ELSE IF index <= Len(notifs)
    THEN Some(EntrySnapshot("Notification", notifs[index]))
    ELSE LET idx == index - Len(notifs) - 1
         IN IF idx < Len(prs)
            THEN Some(EntrySnapshot("MyPullRequest", prs[idx + 1]))
            ELSE None

\* A variant that leaves out Open, whose first call is to the browser;
\* C23_FailureOfApiAction tells it from is_api_action.
is_api_action_without_open(action) == action \in {"Read", "Done", "Unsubscribe"}

is_api_action(action) == action \in {"Open", "Read", "Done", "Unsubscribe"}

\* A call that leaves the process, before its outcome is known.
Call(name, arg) == [name |-> name, arg |-> arg]

\* A variant in which Unsubscribe treats one of the user's pull requests as
\* it treats a notification; C19_PullRequestStaysLocal tells it from
\* action_calls.
action_calls_remote_for_all(action, entry, url) ==
    CASE action = "Open" ->
            <<Call("open_in_browser", url)>>
            \o (IF entry.entry = "Notification" /\ entry.item.unread
                THEN <<Call("mark_as_read", node_id(entry.item))>> ELSE <<>>)
      [] action = "Yank" -> <<Call("copy_to_clipboard", url)>>
      [] action = "Read" -> <<Call("mark_as_read", node_id(entry.item))>>
      [] action = "Done" -> <<Call("mark_as_done", node_id(entry.item))>>
      [] action = "Unsubscribe" ->
            <<Call("unsubscribe", <<"subject", entry.item.id>>),
              Call("mark_as_done", node_id(entry.item))>>
      [] action = "Review" -> <<>>
      [] action = "Branch" -> <<>>

\* execute_action: the calls it makes, in order, as long as none fails.
\* (The match has no arm for Action::Branch, which src/types.rs declares;
\* what Branch does outside the process is not on record here.)
action_calls(action, entry, url) ==
    CASE action = "Open" ->
            <<Call("open_in_browser", url)>>
            \o (IF entry.entry = "Notification" /\ entry.item.unread
                THEN <<Call("mark_as_read", node_id(entry.item))>> ELSE <<>>)
      [] action = "Yank" -> <<Call("copy_to_clipboard", url)>>
      [] action = "Read" ->
            IF entry.entry = "Notification"
            THEN <<Call("mark_as_read", node_id(entry.item))>> ELSE <<>>
      [] action = "Done" ->
            IF entry.entry = "Notification"
            THEN <<Call("mark_as_done", node_id(entry.item))>> ELSE <<>>
      [] action = "Unsubscribe" ->
            IF entry.entry = "Notification"
            THEN (IF subject_id(entry.item) # None
                  THEN <<Call("unsubscribe", subject_id(entry.item)[1])>> ELSE <<>>)
                 \o <<Call("mark_as_done", node_id(entry.item))>>
            ELSE <<Call("append_ignored_pr", url)>>
      [] action = "Review" -> <<>>
      [] action = "Branch" -> <<>>

\* usize formatted by "{}", for the counts the model reaches
Decimal(n) == <<"0", "1", "2", "3", "4", "5", "6", "7", "8", "9", "10">>[n + 1]

\* The prefixes clean_error_message strips.
ErrorPrefixes ==
    { "GraphQL error: ", "GitHub API error: ", "failed to fetch notifications: ",
      "failed to fetch pull requests: ", "failed to send mutation: " }

\* clean_error_message; a message is the sequence of its parts, and the
\* loop strips every leading part that is one of the prefixes.
RECURSIVE clean_error_message(_)
clean_error_message(message) ==
    IF message # <<>> /\ Head(message) \in ErrorPrefixes
    THEN clean_error_message(Tail(message))
    ELSE message

\* An anyhow::Error is the chain of its messages, the outermost context
\* first and the root cause last.  What each call reports when it fails:
\* run_mutation on a response that is not a success, open_in_browser on a
\* command that exits with a failure, Clipboard::new and OpenOptions::open
\* with the context the code attaches.
call_error(name) ==
    CASE name \in {"mark_as_read", "mark_as_done", "unsubscribe"} ->
            << <<"GitHub API error: ", "502 Bad Gateway">> >>
      [] name = "open_in_browser" -> << <<"browser command failed">> >>
      [] name = "copy_to_clipboard" ->
            << <<"clipboard unavailable">>, <<"no clipboard on this display">> >>
      [] name = "append_ignored_pr" ->
            << <<"failed to open ignore list: ", "ignores.txt">>,
               <<"Permission denied (os error 13)">> >>

\* The error execute_action returns for Action::Review.
ReviewNotExecuted ==
    << <<"ReviewPR should be triggered via the 'p' action in the UI">> >>

\* JoinError::to_string for the task with this id; the ids are those of the
\* positions in `tasks`.
JoinErrorText(id) == <<"task ", id, " panicked">>

\* summarize_error
summarize_error(err) ==
    LET cleaned == clean_error_message(err[Len(err)])
    IN IF cleaned = <<>> THEN err[1] ELSE cleaned

\* A variant in which a failed call does not end the action: the calls after
\* it are made all the same; C36_CallsInOrder tells it from execute_action.
execute_action_keeps_going(action, entry, url, failing) ==
    LET planned == action_calls(action, entry, url)
    IN [calls |-> { [name |-> planned[k].name, arg |-> planned[k].arg, ok |-> k # failing] :
                      k \in 1..Len(planned) },
        ok |-> failing = 0 /\ action # "Review",
        error |-> IF failing > 0 THEN Some(call_error(planned[failing].name))
                  ELSE IF action = "Review" THEN Some(ReviewNotExecuted)
                  ELSE None]

\* execute_action when its call number `failing` fails (0: none does): the
\* calls made, each with its outcome, whether the result is Ok, and the
\* error if it is not.  `?` returns at the first failure; Review returns Err
\* at once.
execute_action(action, entry, url, failing) ==
    LET planned == action_calls(action, entry, url)
        made == IF failing = 0 THEN planned ELSE SubSeq(planned, 1, failing)
    IN [calls |-> { [name |-> made[k].name, arg |-> made[k].arg, ok |-> k # failing] :
                      k \in 1..Len(made) },
        ok |-> failing = 0 /\ action # "Review",
        error |-> IF failing > 0 THEN Some(call_error(planned[failing].name))
                  ELSE IF action = "Review" THEN Some(ReviewNotExecuted)
                  ELSE None]

\* The actions execute_commands spawns: <<index, position in the list>>.
spawned_actions(commands, notifs, prs) ==
    UNION { { <<index, k>> : k \in 1..Len(commands[index]) } :
            index \in { i \in DOMAIN commands :
                          entry_for_index(i, notifs, prs) # None } }

\* The vector `tasks`: the spawned actions in the order of the two loops,
\* `order` being the order in which the HashMap yields its entries.
RECURSIVE spawn_tasks(_, _, _, _)
spawn_tasks(commands, notifs, prs, order) ==
    IF order = <<>> THEN <<>>
    ELSE LET index == Head(order)
             rest == spawn_tasks(commands, notifs, prs, Tail(order))
         IN IF entry_for_index(index, notifs, prs) = None THEN rest
            ELSE [k \in 1..Len(commands[index]) |-> <<index, k>>] \o rest

\* What may go wrong: each spawned action may panic, or any one of its
\* calls may fail.  An outcome gives for each spawned action whether its
\* task panicked and the number of its failing call; no action makes more
\* than two calls.
Outcomes(commands, notifs, prs) ==
    LET spawned == spawned_actions(commands, notifs, prs)
    IN { outcome \in [spawned -> [panicked : BOOLEAN, failing : 0..2]] :
           \A sp \in spawned :
               LET entry == entry_for_index(sp[1], notifs, prs)[1]
               IN /\ outcome[sp].failing
                       <= Len(action_calls(commands[sp[1]][sp[2]], entry,
                                           entry_url(entry)))
                  /\ outcome[sp].panicked => outcome[sp].failing = 0 }

\* The outcome in which every call succeeds.
AllSucceed(commands, notifs, prs) ==
    { [sp \in spawned_actions(commands, notifs, prs) |->
          [panicked |-> FALSE, failing |-> 0]] }

\* struct ExecSummary
ExecSummary(succeeded, failed, errors, api_failed, refresh) ==
    [succeeded |-> succeeded, failed |-> failed, errors |-> errors,
     api_failed |-> api_failed, refresh |-> refresh]

\* One iteration of `for task in tasks`: `awaited` is what task.await yields,
\* [id, joined, action, ok, error].
await_task(summary, awaited) ==
    IF awaited.joined /\ awaited.ok
    THEN [summary EXCEPT !.succeeded = @ + 1]
    ELSE IF awaited.joined
    THEN [summary EXCEPT !.failed = @ + 1,
                         !.api_failed = @ \/ is_api_action(awaited.action),
                         !.errors = Append(@, summarize_error(awaited.error[1]))]
    ELSE [summary EXCEPT !.failed = @ + 1,
                         !.api_failed = TRUE,
                         !.errors = Append(@, JoinErrorText(awaited.id))]

\* A variant that stops at the first task that failed, as a fail-fast join
\* would; C21_EveryTaskAwaited tells it from await_tasks.
RECURSIVE await_until_failure(_, _)
await_until_failure(summary, results) ==
    IF results = <<>> \/ summary.failed > 0 THEN summary
    ELSE await_until_failure(await_task(summary, Head(results)), Tail(results))

\* `for task in tasks { match task.await ... }`
RECURSIVE await_tasks(_, _)
await_tasks(summary, results) ==
    IF results = <<>> THEN summary
    ELSE await_tasks(await_task(summary, Head(results)), Tail(results))

\* execute_commands under `outcome`: the calls made and the summary.  The
\* spawned actions run concurrently; a task that panics makes no call;
\* ActionOutcome::refresh is always false.
execute_commands(commands, notifs, prs, order, outcome) ==
    LET tasks == spawn_tasks(commands, notifs, prs, order)
        run(sp) == LET entry == entry_for_index(sp[1], notifs, prs)[1]
                   IN execute_action(commands[sp[1]][sp[2]], entry,
                                     entry_url(entry), outcome[sp].failing)
        awaited(k) == LET sp == tasks[k]
                      IN [id |-> Decimal(k),
                          joined |-> ~outcome[sp].panicked,
                          action |-> commands[sp[1]][sp[2]],
                          ok |-> run(sp).ok,
                          error |-> run(sp).error]
    IN [calls |-> UNION { run(sp).calls :
                            sp \in { t \in Range(tasks) : ~outcome[t].panicked } },
        summary |-> await_tasks(ExecSummary(0, 0, <<>>, FALSE, FALSE),
                                [k \in 1..Len(tasks) |-> awaited(k)])]

\* A variant that asks for a refresh after a failure only if an API action
\* failed, and shows the last error; C24_CommandStatus tells it from
\* command_status.
command_status_api_only(summary) ==
    IF summary.failed > 0
    THEN [message |-> IF summary.errors # <<>>
                      THEN summary.errors[Len(summary.errors)]
                      ELSE <<"unknown">>,
          refresh |-> summary.api_failed,
          sticky |-> TRUE]
    ELSE [message |-> <<"Executed ", Decimal(summary.succeeded), " actions">>,
          refresh |-> summary.refresh,
          sticky |-> FALSE]

\* command_status: the message, whether a refresh is to be requested, and
\* whether the message is sticky.  The message of a success is the text
\* "Executed {} actions" with the count in it.
command_status(summary) ==
    IF summary.failed > 0
    THEN [message |-> IF summary.errors # <<>> THEN Head(summary.errors)
                      ELSE <<"unknown">>,
          refresh |-> summary.api_failed \/ summary.refresh,
          sticky |-> TRUE]
    ELSE [message |-> <<"Executed ", Decimal(summary.succeeded), " actions">>,
          refresh |-> summary.refresh,
          sticky |-> FALSE]

\* ------------------------------------------------------------------------
\* The parser as a machine: one character of the input per step
\* ------------------------------------------------------------------------
\* The characters the machine is fed, a few of each class parse_commands
\* distinguishes.
TypedDigits     == {"0", "1", "2", "3"}
TypedSeparators == {" ", ","}
TypedTargets    == {"u", "m"}
TypedActions    == {"o", "d"}
TypedOthers     == {"z"}

\* Entity counts and alias tables as build_pending_map hands them over: every
\* alias index is a position of the current lists, in ascending order.
ParserInputs ==
    { [count |-> 2,  table |-> ("u" :> <<2>>)],
      [count |-> 12, table |-> ("u" :> <<1, 3>> @@ "m" :> <<3, 12>>)],
      [count |-> 30, table |-> EmptyMap] }

\* The same with alias tables a direct caller of the public function
\* parse_commands may pass: nothing ties their entries to the entity count.
OpenParserInputs ==
    ParserInputs \cup
    { [count |-> 2, table |-> ("u" :> <<2, 5>>)],
      [count |-> 2, table |-> ("m" :> <<0>>)] }

CurrentParserState ==
    ParserState(current_digits, range_start, indices, after_action, result)

SetParserState(st) ==
    /\ current_digits' = st.current_digits
    /\ range_start' = st.range_start
    /\ indices' = st.indices
    /\ after_action' = st.after_action
    /\ result' = st.result

\* The poller as spawn_poller starts it: in its first fetch.  `asked` says
\* that a refresh request was issued since the poller came to where it is,
\* `dropped` that try_send found the channel full, `bursts` counts the
\* waits and fetches during which requests were issued and `woken` the
\* fetches that began because refresh_rx.recv() returned.
PollerStart ==
    [pc |-> "fetch", asked |-> FALSE, dropped |-> FALSE, bursts |-> 0, woken |-> 0]

\* No ignore list on disk, the lock free, no call of append_ignored_pr
\* under way and none returned.
IgnoresStart ==
    [file |-> <<>>, lock |-> <<>>, tasks |-> <<>>, returned |-> <<>>]

AppIdle ==
    /\ notifications = <<>>
    /\ my_prs = <<>>
    /\ include_read = TRUE
    /\ notification_overrides = EmptyMap
    /\ ignored_prs = {}
    /\ input = <<>>
    /\ pending = EmptyMap
    /\ event_rx = <<>>
    /\ exec_tasks = <<>>
    /\ now = 0
    /\ last_merge = None
    /\ stale_data = [count |-> 0, ids |-> {}]
    /\ refresh_rx = 0
    /\ calls = {}
    /\ status = None
    /\ status_sticky = FALSE
    /\ review_tasks = <<>>
    /\ loop_calls = {}
    /\ poller = PollerStart
    /\ ignores = IgnoresStart

ParserStart ==
    /\ consumed = <<>>
    /\ current_digits = <<>>
    /\ range_start = None
    /\ indices = <<>>
    /\ after_action = FALSE
    /\ result = EmptyMap

InitParse ==
    /\ \E in \in ParserInputs :
          /\ notification_count = in.count
          /\ targets = in.table
    /\ ParserStart
    /\ AppIdle

InitParseOpen ==
    /\ \E in \in OpenParserInputs :
          /\ notification_count = in.count
          /\ targets = in.table
    /\ ParserStart
    /\ AppIdle

Feed(ch) ==
    /\ Len(consumed) < MaxLen
    /\ consumed' = Append(consumed, ch)
    /\ UNCHANGED <<notification_count, targets>>
    /\ UNCHANGED app_vars

ParseDigit ==
    \E ch \in TypedDigits :
        /\ Feed(ch)
        /\ SetParserState(on_digit(CurrentParserState, ch))

ParseDash ==
    /\ Feed("-")
    /\ SetParserState(on_dash(CurrentParserState, notification_count))

ParseSeparator ==
    \E ch \in TypedSeparators :
        /\ Feed(ch)
        /\ SetParserState(on_separator(CurrentParserState, notification_count))

ParseTarget ==
    \E ch \in TypedTargets :
        /\ Feed(ch)
        /\ SetParserState(on_target(CurrentParserState, ch, notification_count, targets))

ParseAction ==
    \E ch \in TypedActions :
        /\ Feed(ch)
        /\ SetParserState(on_action(CurrentParserState, Action_from_char(ch)[1],
                                    notification_count))

ParseOther ==
    \E ch \in TypedOthers :
        /\ Feed(ch)
        /\ SetParserState(on_other(CurrentParserState))

NextParse ==
    \/ ParseDigit
    \/ ParseDash
    \/ ParseSeparator
    \/ ParseTarget
    \/ ParseAction
    \/ ParseOther

SpecParse == InitParse /\ [][NextParse]_vars

SpecParseOpen == InitParseOpen /\ [][NextParse]_vars

\* The machine computes what the function computes.
ParseMachineAgrees ==
    result = parse_commands(consumed, notification_count, targets)

\* ------------------------------------------------------------------------
\* The event loop, the poller and the executor tasks (src/main.rs)
\* ------------------------------------------------------------------------
NotificationIds == {"n1", "n2"}

PullUrl(id) ==
    CASE id = "n1"  -> "https://github.com/acme/widgets/pull/1"
      [] id = "n2"  -> "https://github.com/acme/widgets/pull/2"
      [] OTHER      -> "https://github.com/acme/widgets/pull/100"

\* What the server may report for notification n1: with statuses ["UNREAD"]
\* (the unread-only view) only an unread one.
ServerNotifications(incl_read) ==
    { Notification("n1", unread, TimeStrings[t],
                   Subject("PullRequest", {}, None, PullUrl("n1"))) :
        unread \in (IF incl_read THEN BOOLEAN ELSE {TRUE}),
        t \in 1..MaxTime }

\* Notification n2 never changes on the server.
Bystander ==
    Notification("n2", TRUE, TimeStrings[1],
                 Subject("PullRequest", {}, None, PullUrl("n2")))

\* The lists one fetch may return: each notification at most once, and n2
\* first, which is not where set_data puts it when n1 is the newer one.
FetchedNotificationLists(incl_read) ==
    {<<>>, <<Bystander>>}
    \cup { <<n>> : n \in ServerNotifications(incl_read) }
    \cup { <<Bystander, n>> : n \in ServerNotifications(incl_read) }

\* The user has no open pull requests of their own.
FetchedPullRequestLists == { <<>> }

\* The command lines the user types, one character at a time; Enter may come
\* after any prefix of one.
CommandTexts ==
    { <<"1", "o", "d">>, <<"1", "d", "o">> }

IsPrefix(s, t) == Len(s) <= Len(t) /\ SubSeq(t, 1, Len(s)) = s

TypedKeys == UNION { Range(text) : text \in CommandTexts }

DataEvent(notifs, prs) == [type |-> "Data", notifications |-> notifs, my_prs |-> prs]

CommandResultEvent(summary) == [type |-> "CommandResult", summary |-> summary]

\* The orders in which a HashMap with these keys may yield them.
KeyOrders(keys) ==
    { order \in [1..Cardinality(keys) -> keys] :
        \A i, j \in 1..Cardinality(keys) : i # j => order[i] # order[j] }

\* A variant that captures the lists after the optimistic update;
\* C26_SnapshotTargets tells it from ExecTask.
ExecTask_after_update(commands, notifs, prs) ==
    LET app == apply_optimistic_update(
                   AppData(notifs, prs, EmptyMap, {}), commands,
                   CHOOSE order \in KeyOrders(DOMAIN commands) : TRUE,
                   include_read, now)
    IN [commands |-> commands, notifications |-> app.notifications,
        my_prs |-> app.my_prs]

\* What the spawned task owns: pending, notifications_snapshot,
\* my_prs_snapshot.
ExecTask(commands, notifs, prs) ==
    [commands |-> commands, notifications |-> notifs, my_prs |-> prs]

CurrentAppData ==
    AppData(notifications, my_prs, notification_overrides, ignored_prs)

SetAppData(app) ==
    /\ notifications' = app.notifications
    /\ my_prs' = app.my_prs
    /\ notification_overrides' = app.notification_overrides
    /\ ignored_prs' = app.ignored_prs

ParserIdle ==
    /\ notification_count = 0
    /\ targets = EmptyMap
    /\ ParserStart

Init ==
    /\ notifications = <<>>
    /\ my_prs = <<>>
    /\ include_read \in BOOLEAN
    /\ notification_overrides = EmptyMap
    /\ ignored_prs = {}
    /\ input = <<>>
    /\ pending = EmptyMap
    /\ event_rx = <<>>
    /\ exec_tasks = <<>>
    /\ now = 1
    /\ last_merge = None
    /\ stale_data = [count |-> 0, ids |-> {}]
    /\ refresh_rx = 0
    /\ calls = {}
    /\ status = None
    /\ status_sticky = FALSE
    /\ review_tasks = <<>>
    /\ loop_calls = {}
    /\ poller = PollerStart
    /\ ignores = IgnoresStart
    /\ ParserIdle

InFlightData == Cardinality({ i \in 1..Len(event_rx) : event_rx[i].type = "Data" })

\* Executor tasks that run or whose summary the event loop has yet to handle.
UnsettledTasks ==
    Len(exec_tasks)
    + Cardinality({ i \in 1..Len(event_rx) : event_rx[i].type = "CommandResult" })

\* A variant that empties the preview, as clear_commands does, where the
\* code rebuilds it; C16_PreviewMatchesExecution tells it from update_pending.
pending_cleared(text, notifs, prs) == EmptyMap

\* AppState::update_pending
update_pending(text, notifs, prs) == build_pending_map(text, notifs, prs)

\* spawn_poller: one fetch succeeded and its result was sent to the event loop.
PollerFetch ==
    /\ Len(event_rx) < EventCapacity
    /\ InFlightData < MaxInFlightData
    /\ \E notifs \in FetchedNotificationLists(include_read),
          prs \in FetchedPullRequestLists :
          event_rx' = Append(event_rx, DataEvent(notifs, prs))
    /\ UNCHANGED <<notifications, my_prs, include_read, notification_overrides,
                   ignored_prs, input, pending, exec_tasks, now>>
    /\ last_merge' = None
    /\ UNCHANGED <<stale_data, refresh_rx, calls>>
    /\ UNCHANGED <<status, status_sticky, review_tasks, loop_calls, poller, ignores>>
    /\ UNCHANGED parser_vars

\* A variant in which AppEvent::Data clears the status line, sticky or not;
\* C32_StickyOutlivesData tells it from HandleData.
HandleData_clears_status ==
    /\ event_rx # <<>>
    /\ Head(event_rx).type = "Data"
    /\ LET app == set_data(CurrentAppData, include_read,
                           Head(event_rx).notifications, Head(event_rx).my_prs)
       IN /\ SetAppData(app)
          /\ pending' = update_pending(input, app.notifications, app.my_prs)
    /\ last_merge' = Some([fetched |-> Head(event_rx).notifications,
                            overrides |-> notification_overrides,
                            stale |-> stale_data])
    /\ stale_data' = IF stale_data.count > 1
                      THEN [stale_data EXCEPT !.count = @ - 1]
                      ELSE [count |-> 0, ids |-> {}]
    /\ status' = None
    /\ UNCHANGED <<refresh_rx, calls, status_sticky, review_tasks, loop_calls, poller, ignores>>
    /\ event_rx' = Tail(event_rx)
    /\ UNCHANGED <<include_read, input, exec_tasks, now>>
    /\ UNCHANGED parser_vars

\* run_app: AppEvent::Data => app.set_data(notifications, my_prs), and the
\* status is cleared unless it is sticky
HandleData ==
    /\ event_rx # <<>>
    /\ Head(event_rx).type = "Data"
    /\ LET app == set_data(CurrentAppData, include_read,
                           Head(event_rx).notifications, Head(event_rx).my_prs)
       IN /\ SetAppData(app)
          /\ pending' = update_pending(input, app.notifications, app.my_prs)
    /\ last_merge' = Some([fetched |-> Head(event_rx).notifications,
                            overrides |-> notification_overrides,
                            stale |-> stale_data])
    /\ stale_data' = IF stale_data.count > 1
                      THEN [stale_data EXCEPT !.count = @ - 1]
                      ELSE [count |-> 0, ids |-> {}]
    /\ status' = IF status_sticky THEN status ELSE None
    /\ UNCHANGED <<refresh_rx, calls, status_sticky, review_tasks, loop_calls, poller, ignores>>
    /\ event_rx' = Tail(event_rx)
    /\ UNCHANGED <<include_read, input, exec_tasks, now>>
    /\ UNCHANGED parser_vars

\* handle_text_input: a character that the command language knows is added
\* to the line and the preview is rebuilt.
handle_text_input(texts) ==
    \E ch \in UNION { Range(text) : text \in texts } :
        /\ \E text \in texts : IsPrefix(Append(input, ch), text)
        /\ input' = Append(input, ch)
        /\ pending' = update_pending(input', notifications, my_prs)
        /\ UNCHANGED <<notifications, my_prs, include_read, notification_overrides,
                       ignored_prs, event_rx, exec_tasks, now>>
        /\ last_merge' = None
        /\ UNCHANGED <<stale_data, refresh_rx, calls>>
        /\ UNCHANGED <<status, status_sticky, review_tasks, loop_calls, poller, ignores>>
        /\ UNCHANGED parser_vars

\* The user types one of CommandTexts.
KeyChar == handle_text_input(CommandTexts)

\* handle_input: Esc => app.clear_commands()
KeyEsc ==
    /\ input' = <<>>
    /\ pending' = EmptyMap
    /\ UNCHANGED <<notifications, my_prs, include_read, notification_overrides,
                   ignored_prs, event_rx, exec_tasks, now>>
    /\ last_merge' = None
    /\ UNCHANGED <<stale_data, refresh_rx, calls>>
    /\ UNCHANGED <<status, status_sticky, review_tasks, loop_calls, poller, ignores>>
    /\ UNCHANGED parser_vars

\* handle_text_input: Ctrl+U (or Super+Backspace) deletes the line up to the
\* cursor, which stands at its end, and the preview is rebuilt.
KeyDeleteLine ==
    /\ input' = <<>>
    /\ pending' = update_pending(input', notifications, my_prs)
    /\ UNCHANGED <<notifications, my_prs, include_read, notification_overrides,
                   ignored_prs, event_rx, exec_tasks, now>>
    /\ last_merge' = None
    /\ UNCHANGED <<stale_data, refresh_rx, calls>>
    /\ UNCHANGED <<status, status_sticky, review_tasks, loop_calls, poller, ignores>>
    /\ UNCHANGED parser_vars

\* str::contains("/pull/") on the urls the entities of the model have
url_contains_pull(url) == url # "https://github.com/acme/widgets/issues/7"

\* struct ReviewRequest
ReviewRequest(pr_url) == [pr_url |-> pr_url]

\* AppEvent::Review
ReviewEvent(request) == [type |-> "Review", request |-> request]

\* The indices whose actions include Review.
review_indices(commands) ==
    { index \in DOMAIN commands : Contains(commands[index], "Review") }

\* split_review_action returns Err: None, or the text of the error.  Review
\* has more than one target, its target is out of range, or the url of its
\* target has no "/pull/".
review_error(commands, notifs, prs) ==
    IF Cardinality(review_indices(commands)) > 1
    THEN Some(<<"ReviewPR expects a single target">>)
    ELSE IF review_indices(commands) = {} THEN None
    ELSE LET entry == entry_for_index(CHOOSE index \in review_indices(commands) : TRUE,
                                      notifs, prs)
         IN IF entry = None THEN Some(<<"ReviewPR target is out of range">>)
            ELSE IF ~url_contains_pull(entry_url(entry[1]))
            THEN Some(<<"ReviewPR only supports pull request URLs">>)
            ELSE None

\* split_review_action returns Ok: the review request, an Option
review_request(commands, notifs, prs) ==
    IF review_indices(commands) = {} THEN None
    ELSE Some(ReviewRequest(entry_url(
             entry_for_index(CHOOSE index \in review_indices(commands) : TRUE,
                             notifs, prs)[1])))

\* split_review_action: the map without its Review actions
without_review(commands) ==
    LET remaining(index) == SelectSeq(commands[index], LAMBDA a : a # "Review")
    IN [index \in { i \in DOMAIN commands : remaining(i) # <<>> } |-> remaining(index)]

\* The early returns of submit_commands: no command, a Review error, or no
\* command but a Review.
nothing_to_run(commands, notifs, prs) ==
    \/ commands = EmptyMap
    \/ review_error(commands, notifs, prs) # None
    \/ without_review(commands) = EmptyMap

\* pending.values().map(Vec::len).sum()
RECURSIVE action_total(_)
action_total(commands) ==
    IF DOMAIN commands = {} THEN 0
    ELSE LET index == CHOOSE i \in DOMAIN commands : TRUE
         IN Len(commands[index])
            + action_total([i \in DOMAIN commands \ {index} |-> commands[i]])

\* The task that sends AppEvent::Review, spawned if there is a request.
spawn_review(request) ==
    review_tasks' = IF request = None THEN review_tasks
                    ELSE Append(review_tasks, request[1])

\* submit_commands with nothing to run: the status says why and the line is
\* cleared.
KeyEnterNothing ==
    LET parsed == build_pending_map(input, notifications, my_prs)
        error == review_error(parsed, notifications, my_prs)
    IN /\ nothing_to_run(parsed, notifications, my_prs)
       /\ IF parsed = EmptyMap
          THEN /\ status' = Some(<<"No commands to run">>)
               /\ status_sticky' = FALSE
               /\ UNCHANGED review_tasks
          ELSE IF error # None
          THEN /\ status' = error
               /\ status_sticky' = TRUE
               /\ UNCHANGED review_tasks
          ELSE /\ Len(review_tasks) < MaxReviews
               /\ spawn_review(review_request(parsed, notifications, my_prs))
               /\ status' = Some(<<"Opening ReviewPR in nvim...">>)
               /\ status_sticky' = FALSE
       /\ input' = <<>>
       /\ pending' = EmptyMap
       /\ UNCHANGED <<notifications, my_prs, include_read, notification_overrides,
                      ignored_prs, event_rx, exec_tasks, now>>
       /\ last_merge' = None
       /\ UNCHANGED <<stale_data, refresh_rx, calls, loop_calls, poller, ignores>>
       /\ UNCHANGED parser_vars

\* submit_commands: the Review request is sent off, then snapshot,
\* optimistic update, status, clear the line, spawn the executor task.
KeyEnterSubmit ==
    LET parsed == build_pending_map(input, notifications, my_prs)
        commands == without_review(parsed)
        request == review_request(parsed, notifications, my_prs)
    IN /\ ~nothing_to_run(parsed, notifications, my_prs)
       /\ UnsettledTasks < MaxExecTasks
       /\ request # None => Len(review_tasks) < MaxReviews
       /\ spawn_review(request)
       /\ \E order \in KeyOrders(DOMAIN commands) :
             SetAppData(apply_optimistic_update(CurrentAppData, commands, order,
                                                include_read, now))
       /\ status' = Some(<<"Executing ", Decimal(action_total(commands)), " actions...">>)
       /\ status_sticky' = FALSE
       /\ input' = <<>>
       /\ pending' = EmptyMap
       /\ exec_tasks' = Append(exec_tasks, ExecTask(commands, notifications, my_prs))
       /\ UNCHANGED <<include_read, event_rx, now>>
       /\ last_merge' = None
       /\ stale_data' =
             IF InFlightData = 0
             THEN [count |-> 0, ids |-> {}]
             ELSE [count |-> InFlightData,
                   ids |-> { notifications[index].id :
                               index \in DOMAIN commands \cap 1..Len(notifications) }]
       /\ UNCHANGED <<refresh_rx, calls, loop_calls, poller, ignores>>
       /\ UNCHANGED parser_vars

\* The spawned executor task: execute_commands runs, with calls that may
\* fail if `fallible`, and the summary is sent to the event loop.
\* `observed` tells whether the record of calls is kept.
ExecuteTask(fallible, observed) ==
    /\ Len(event_rx) < EventCapacity
    /\ \E i \in 1..Len(exec_tasks) :
          LET task == exec_tasks[i]
          IN \E outcome \in (IF fallible
                              THEN Outcomes(task.commands, task.notifications,
                                            task.my_prs)
                              ELSE AllSucceed(task.commands, task.notifications,
                                              task.my_prs)) :
                \E order \in KeyOrders(DOMAIN task.commands) :
                   LET run == execute_commands(task.commands, task.notifications,
                                               task.my_prs, order, outcome)
                   IN /\ exec_tasks' = RemoveAt(exec_tasks, i - 1)
                      /\ event_rx' = Append(event_rx, CommandResultEvent(run.summary))
                      /\ calls' = IF observed THEN calls \cup run.calls ELSE calls
    /\ UNCHANGED <<notifications, my_prs, include_read, notification_overrides,
                   ignored_prs, input, pending, now>>
    /\ last_merge' = None
    /\ UNCHANGED <<stale_data, refresh_rx>>
    /\ UNCHANGED <<status, status_sticky, review_tasks, loop_calls, poller, ignores>>
    /\ UNCHANGED parser_vars

\* An executor task all of whose calls succeed.
ExecFinish == ExecuteTask(FALSE, FALSE)

\* An executor task any of whose calls may fail.
ExecRun ==
    /\ Cardinality(calls) < MaxCalls
    /\ ExecuteTask(TRUE, TRUE)

\* run_app: AppEvent::CommandResult => handle_command_result
HandleCommandResult ==
    /\ event_rx # <<>>
    /\ Head(event_rx).type = "CommandResult"
    /\ event_rx' = Tail(event_rx)
    /\ status' = Some(command_status(Head(event_rx).summary).message)
    /\ status_sticky' = command_status(Head(event_rx).summary).sticky
    /\ refresh_rx' = IF command_status(Head(event_rx).summary).refresh
                     THEN Min(refresh_rx + 1, RefreshCapacity)
                     ELSE refresh_rx
    /\ UNCHANGED <<notifications, my_prs, include_read, notification_overrides,
                   ignored_prs, input, pending, exec_tasks, now>>
    /\ last_merge' = None
    /\ UNCHANGED <<stale_data, calls, review_tasks, loop_calls, poller, ignores>>
    /\ UNCHANGED parser_vars

\* spawn_poller: refresh_rx.recv() ends the wait, one fetch succeeds and its
\* result is sent to the event loop.
PollerRefresh ==
    /\ refresh_rx > 0
    /\ refresh_rx' = refresh_rx - 1
    /\ Len(event_rx) < EventCapacity
    /\ InFlightData < MaxInFlightData
    /\ \E notifs \in FetchedNotificationLists(include_read),
          prs \in FetchedPullRequestLists :
          event_rx' = Append(event_rx, DataEvent(notifs, prs))
    /\ UNCHANGED <<notifications, my_prs, include_read, notification_overrides,
                   ignored_prs, input, pending, exec_tasks, now>>
    /\ last_merge' = None
    /\ UNCHANGED <<stale_data, calls>>
    /\ UNCHANGED <<status, status_sticky, review_tasks, loop_calls, poller, ignores>>
    /\ UNCHANGED parser_vars

\* Time passes.
ClockTick ==
    /\ now < MaxTime
    /\ now' = now + 1
    /\ UNCHANGED <<notifications, my_prs, include_read, notification_overrides,
                   ignored_prs, input, pending, event_rx, exec_tasks>>
    /\ last_merge' = None
    /\ UNCHANGED <<stale_data, refresh_rx, calls>>
    /\ UNCHANGED <<status, status_sticky, review_tasks, loop_calls, poller, ignores>>
    /\ UNCHANGED parser_vars

Next ==
    \/ PollerFetch
    \/ HandleData
    \/ KeyChar
    \/ KeyEsc
    \/ KeyDeleteLine
    \/ KeyEnterNothing
    \/ KeyEnterSubmit
    \/ ExecFinish
    \/ HandleCommandResult
    \/ ClockTick

Spec == Init /\ [][Next]_vars

\* ------------------------------------------------------------------------
\* The command line over lists of every kind of entry: build_pending_map
\* and apply_optimistic_update applied to the lists that AppState may hold,
\* with no refresh in between.
\* ------------------------------------------------------------------------
ScreenUrl(kind, id) ==
    IF is_pull_request_kind(kind)
    THEN PullUrl(id)
    ELSE "https://github.com/acme/widgets/issues/7"

ScreenNotification(id, kind, unread) ==
    Notification(id, unread, TimeStrings[1],
                 Subject(kind, {}, None, ScreenUrl(kind, id)))

OwnPullUrl(id) ==
    CASE id = "pr1" -> "https://github.com/acme/widgets/pull/11"
      [] id = "pr3" -> "https://github.com/acme/widgets/pull/13"
      [] OTHER      -> "https://github.com/acme/widgets/pull/12"

OwnPullRequest(id) ==
    MyPullRequest(id, TimeStrings[1],
                  Subject("PullRequest", {}, None, OwnPullUrl(id)))

\* subject.kind as the server may spell it
ScreenKinds == {"PullRequest", "pullrequest", "Issue"}

\* One notification, followed by none, one or two of the user's pull requests.
ShortScreens ==
    { [notifications |-> <<ScreenNotification("n1", kind, unread)>>, my_prs |-> prs] :
        kind \in ScreenKinds, unread \in BOOLEAN,
        prs \in { <<>>, <<OwnPullRequest("pr1")>>,
                  <<OwnPullRequest("pr1"), OwnPullRequest("pr2")>> } }

\* Which three of five notifications are unread.
UnreadPositions == { {1, 2, 3}, {1, 3, 5}, {2, 4, 5} }

\* Five notifications, three of them unread.
LongScreens ==
    { [notifications |->
          [i \in 1..5 |-> ScreenNotification(<<"n1", "n2", "n3", "n4", "n5">>[i],
                                             "PullRequest", i \in unread)],
       my_prs |-> <<>>] :
        unread \in UnreadPositions }

Screens == ShortScreens \cup LongScreens

\* The command lines typed on a screen; Enter may come after any prefix.
ScreenTexts ==
    { <<"1", "o">>, <<"1", "r">>, <<"1", "d">>, <<"1", "q">>, <<"1", "b">>,
      <<"1", "y">>, <<"1", "r", "q">>, <<"2", "d", "q">>, <<"2", "o">>,
      <<"2", "y", "b">>, <<"3", "q">>, <<"u", " ", "d">> }

\* AppState::new followed by lists as a refresh leaves them.
InitScreen ==
    /\ \E screen \in Screens :
          /\ notifications = screen.notifications
          /\ my_prs = screen.my_prs
    /\ include_read \in BOOLEAN
    /\ notification_overrides = EmptyMap
    /\ ignored_prs = {}
    /\ input = <<>>
    /\ pending = EmptyMap
    /\ event_rx = <<>>
    /\ exec_tasks = <<>>
    /\ now = 1
    /\ last_merge = None
    /\ stale_data = [count |-> 0, ids |-> {}]
    /\ refresh_rx = 0
    /\ calls = {}
    /\ status = None
    /\ status_sticky = FALSE
    /\ review_tasks = <<>>
    /\ loop_calls = {}
    /\ poller = PollerStart
    /\ ignores = IgnoresStart
    /\ ParserIdle

\* The user types one of ScreenTexts.
KeyCharScreen == handle_text_input(ScreenTexts)

NextScreen ==
    \/ KeyCharScreen
    \/ KeyEsc
    \/ KeyEnterNothing
    \/ KeyEnterSubmit
    \/ ExecFinish
    \/ HandleCommandResult

SpecScreen == InitScreen /\ [][NextScreen]_vars

\* ------------------------------------------------------------------------
\* Several entries removed by one submission: three notifications followed
\* by three of the user's pull requests, and command lines that name more
\* than one of them.
\* ------------------------------------------------------------------------
\* Which of the three notifications are unread.
BatchUnread == { {1, 3}, {1, 2, 3}, {2}, {} }

\* The second notification and the second pull request are merged, the
\* third pull request is approved.
BatchStatus(k) == IF k = 2 THEN {"Merged"} ELSE {}

BatchScreens ==
    { [notifications |->
          [i \in 1..3 |->
              Notification(<<"n1", "n2", "n3">>[i], i \in unread, TimeStrings[1],
                           Subject("PullRequest", BatchStatus(i), None,
                                   PullUrl(<<"n1", "n2", "n3">>[i])))],
       my_prs |->
          [k \in 1..3 |->
              MyPullRequest(<<"pr1", "pr2", "pr3">>[k], TimeStrings[1],
                            Subject("PullRequest", BatchStatus(k),
                                    IF k = 3 THEN Some("Approved") ELSE None,
                                    OwnPullUrl(<<"pr1", "pr2", "pr3">>[k])))]] :
        unread \in BatchUnread }

BatchTexts ==
    { <<"1", " ", "3", "d">>, <<"4", " ", "6", "q">>, <<"2", "-", "5", "q">>,
      <<"3", " ", "1", "r">>, <<"u", " ", "d">>, <<"2", "d">>, <<"m", "q">>,
      <<"a", "y">> }

\* AppState::new followed by lists as a refresh leaves them.
InitBatch ==
    /\ \E screen \in BatchScreens :
          /\ notifications = screen.notifications
          /\ my_prs = screen.my_prs
    /\ include_read \in BOOLEAN
    /\ notification_overrides = EmptyMap
    /\ ignored_prs = {}
    /\ input = <<>>
    /\ pending = EmptyMap
    /\ event_rx = <<>>
    /\ exec_tasks = <<>>
    /\ now = 1
    /\ last_merge = None
    /\ stale_data = [count |-> 0, ids |-> {}]
    /\ refresh_rx = 0
    /\ calls = {}
    /\ status = None
    /\ status_sticky = FALSE
    /\ review_tasks = <<>>
    /\ loop_calls = {}
    /\ poller = PollerStart
    /\ ignores = IgnoresStart
    /\ ParserIdle

KeyCharBatch == handle_text_input(BatchTexts)

NextBatch ==
    \/ KeyCharBatch
    \/ KeyEnterNothing
    \/ KeyEnterSubmit
    \/ ExecFinish
    \/ HandleCommandResult

SpecBatch == InitBatch /\ [][NextBatch]_vars

\* ------------------------------------------------------------------------
\* The executor on its own: execute_commands applied to the maps and
\* snapshots it may be handed, whatever filter_pending_actions would have
\* let through.
\* ------------------------------------------------------------------------
\* A notification for which the server sent no subject, before one of the
\* user's pull requests.
SubjectlessScreen ==
    [notifications |-> <<ScreenNotification("n5", "PullRequest", TRUE)>>,
     my_prs |-> <<OwnPullRequest("pr1")>>]

ExecutorScreens == ShortScreens \cup {SubjectlessScreen}

\* The actions execute_action has an arm for.
ExecutedActions == {"Open", "Yank", "Read", "Done", "Unsubscribe", "Review"}

\* One or two actions for one index, or one action for each of two, the
\* second of which may be past the end of the lists.
ExecutorCommands(screen) ==
    LET total == Len(screen.notifications) + Len(screen.my_prs)
    IN { (index :> <<a>>) : index \in 1..total, a \in ExecutedActions }
       \cup { (index :> <<a, b>>) : index \in 1..total,
                                    a \in {"Read", "Done"}, b \in {"Open", "Unsubscribe"} }
       \cup { (1 :> <<a>>) @@ (index :> <<b>>) :
                index \in 2..total, a \in {"Open", "Done"}, b \in {"Done", "Unsubscribe"} }
       \cup { (1 :> <<a>>) @@ ((total + 1) :> <<"Done">>) : a \in {"Open", "Yank"} }

\* The event loop has just spawned an executor task.
InitExecute ==
    /\ \E screen \in ExecutorScreens :
          /\ notifications = screen.notifications
          /\ my_prs = screen.my_prs
          /\ \E commands \in ExecutorCommands(screen) :
                exec_tasks = <<ExecTask(commands, screen.notifications, screen.my_prs)>>
    /\ include_read = TRUE
    /\ notification_overrides = EmptyMap
    /\ ignored_prs = {}
    /\ input = <<>>
    /\ pending = EmptyMap
    /\ event_rx = <<>>
    /\ now = 1
    /\ last_merge = None
    /\ stale_data = [count |-> 0, ids |-> {}]
    /\ refresh_rx = 0
    /\ calls = {}
    /\ status = None
    /\ status_sticky = FALSE
    /\ review_tasks = <<>>
    /\ loop_calls = {}
    /\ poller = PollerStart
    /\ ignores = IgnoresStart
    /\ ParserIdle

NextExecute ==
    \/ ExecRun
    \/ HandleCommandResult

SpecExecute == InitExecute /\ [][NextExecute]_vars

\* ------------------------------------------------------------------------
\* The event loop when remote calls may fail: the poller fetches when the
\* event loop asks for a refresh.
\* ------------------------------------------------------------------------
\* One notification and none of the user's pull requests.
RecoverScreens == { screen \in ShortScreens : screen.my_prs = <<>> }

\* The command lines typed here; Enter may come after any prefix.
RecoverTexts == { <<"1", "r">>, <<"1", "d">> }

\* The user types one of RecoverTexts.
KeyCharRecover == handle_text_input(RecoverTexts)

\* AppState::new followed by lists as a refresh leaves them.
InitRecover ==
    /\ \E screen \in RecoverScreens :
          /\ notifications = screen.notifications
          /\ my_prs = screen.my_prs
    /\ include_read \in BOOLEAN
    /\ notification_overrides = EmptyMap
    /\ ignored_prs = {}
    /\ input = <<>>
    /\ pending = EmptyMap
    /\ event_rx = <<>>
    /\ exec_tasks = <<>>
    /\ now = 1
    /\ last_merge = None
    /\ stale_data = [count |-> 0, ids |-> {}]
    /\ refresh_rx = 0
    /\ calls = {}
    /\ status = None
    /\ status_sticky = FALSE
    /\ review_tasks = <<>>
    /\ loop_calls = {}
    /\ poller = PollerStart
    /\ ignores = IgnoresStart
    /\ ParserIdle

NextRecover ==
    \/ KeyCharRecover
    \/ KeyEnterNothing
    \/ KeyEnterSubmit
    \/ ExecRun
    \/ HandleCommandResult
    \/ PollerRefresh
    \/ HandleData

SpecRecover == InitRecover /\ [][NextRecover]_vars

\* ------------------------------------------------------------------------
\* handle_command_result on its own: command_status applied to any summary
\* an ExecSummary can hold, as the tests of src/main.rs build them.
\* ------------------------------------------------------------------------
\* Error texts as summarize_error leaves them.
SummaryErrors ==
    { summarize_error(call_error(name)) :
        name \in {"mark_as_read", "open_in_browser", "copy_to_clipboard"} }

\* The error lists of at most n texts
RECURSIVE ErrorLists(_)
ErrorLists(n) ==
    IF n = 0 THEN { <<>> }
    ELSE ErrorLists(n - 1)
         \cup { Append(errors, e) : errors \in ErrorLists(n - 1), e \in SummaryErrors }

\* The summaries: one error per failed action, as execute_commands counts
\* them, and api_failed only if an action failed; `refresh` is free, which
\* ActionOutcome allows and no action of execute_action sets.
ResultSummaries ==
    { ExecSummary(succeeded, Len(errors), errors, api_failed, refresh) :
        succeeded \in 0..MaxCounted, errors \in ErrorLists(MaxCounted),
        api_failed \in BOOLEAN, refresh \in BOOLEAN }
    \ { summary \in [succeeded : 0..MaxCounted, failed : {0}, errors : { <<>> },
                     api_failed : {TRUE}, refresh : BOOLEAN] : TRUE }

\* The status line before the summary arrives: what submit_commands set, or
\* the sticky error of an earlier summary.
EarlierStatus ==
    { [status |-> Some(<<"Executing ", Decimal(1), " actions...">>), sticky |-> FALSE],
      [status |-> Some(<<"502 Bad Gateway">>), sticky |-> TRUE] }

\* A summary is in the channel; a refresh request may wait already.
InitResult ==
    /\ notifications = <<>>
    /\ my_prs = <<>>
    /\ include_read = TRUE
    /\ notification_overrides = EmptyMap
    /\ ignored_prs = {}
    /\ input = <<>>
    /\ pending = EmptyMap
    /\ \E summary \in ResultSummaries : event_rx = <<CommandResultEvent(summary)>>
    /\ exec_tasks = <<>>
    /\ now = 1
    /\ last_merge = None
    /\ stale_data = [count |-> 0, ids |-> {}]
    /\ refresh_rx \in 0..RefreshCapacity
    /\ calls = {}
    /\ \E earlier \in EarlierStatus :
          /\ status = earlier.status
          /\ status_sticky = earlier.sticky
    /\ review_tasks = <<>>
    /\ loop_calls = {}
    /\ poller = PollerStart
    /\ ignores = IgnoresStart
    /\ ParserIdle

NextResult == HandleCommandResult

SpecResult == InitResult /\ [][NextResult]_vars


\* ------------------------------------------------------------------------
\* The poller's loop and the refresh key: spawn_poller fetches, sends the
\* result and waits for the interval or for a refresh request; the key 'R'
\* asks for a refresh (SpecPoller).
\* ------------------------------------------------------------------------
\* How many waits and fetches of the poller see refresh requests.
MaxBursts == 2

\* A channel with room for one request more than mpsc::channel::<()>(1)
\* has; C27_RefreshCoalesced tells it from try_send.
try_send_with_room(buffered) ==
    IF buffered < RefreshCapacity + 1 THEN buffered + 1 ELSE buffered

\* refresh_tx.try_send(()): the request is buffered if the channel has
\* room and is dropped if not; the result is ignored (let _ =).
try_send(buffered) ==
    IF buffered < RefreshCapacity THEN buffered + 1 ELSE buffered

\* What err.to_string() is when fetch_notifications_and_my_prs fails: the
\* response was not a success, or the request could not be sent.
FetchErrors ==
    { <<"GitHub API error: ", "502 Bad Gateway">>, <<"failed to fetch notifications">> }

ErrorEvent(message) == [type |-> "Error", message |-> message]

\* The lists a fetch returns here.
PolledNotificationLists == { <<>>, <<Bystander>> }

\* What the poller sends after one fetch.
PolledEvents ==
    { DataEvent(notifs, <<>>) : notifs \in PolledNotificationLists }
    \cup { ErrorEvent(message) : message \in FetchErrors }

RefreshingStatus == Some(<<"Refreshing...">>)

InitPoller ==
    /\ Init
    /\ include_read = TRUE

\* spawn_poller, the head of the loop: the fetch ends, well or not, and
\* event_tx.send(..).await hands the result to the event loop, which it can
\* once the channel has room; the poller then waits in select!.
PollerSend ==
    /\ poller.pc = "fetch"
    /\ Len(event_rx) < EventCapacity
    /\ \E event \in PolledEvents : event_rx' = Append(event_rx, event)
    /\ poller' = [poller EXCEPT !.pc = "wait", !.asked = FALSE]
    /\ UNCHANGED <<notifications, my_prs, include_read, notification_overrides,
                   ignored_prs, input, pending, exec_tasks, now>>
    /\ last_merge' = None
    /\ UNCHANGED <<stale_data, refresh_rx, calls>>
    /\ UNCHANGED <<status, status_sticky, review_tasks, loop_calls, ignores>>
    /\ UNCHANGED parser_vars

\* spawn_poller, select!: interval.tick() completes and the loop goes
\* round; a request that waits stays in the channel.
PollerTick ==
    /\ poller.pc = "wait"
    /\ poller' = [poller EXCEPT !.pc = "fetch", !.asked = FALSE]
    /\ UNCHANGED <<notifications, my_prs, include_read, notification_overrides,
                   ignored_prs, input, pending, event_rx, exec_tasks, now>>
    /\ last_merge' = None
    /\ UNCHANGED <<stale_data, refresh_rx, calls>>
    /\ UNCHANGED <<status, status_sticky, review_tasks, loop_calls, ignores>>
    /\ UNCHANGED parser_vars

\* spawn_poller, select!: refresh_rx.recv() takes one request from the
\* channel and the loop goes round.
PollerRecv ==
    /\ poller.pc = "wait"
    /\ refresh_rx > 0
    /\ refresh_rx' = refresh_rx - 1
    /\ poller' = [poller EXCEPT !.pc = "fetch", !.asked = FALSE,
                                !.woken = @ + 1]
    /\ UNCHANGED <<notifications, my_prs, include_read, notification_overrides,
                   ignored_prs, input, pending, event_rx, exec_tasks, now>>
    /\ last_merge' = None
    /\ UNCHANGED <<stale_data, calls>>
    /\ UNCHANGED <<status, status_sticky, review_tasks, loop_calls, ignores>>
    /\ UNCHANGED parser_vars

\* handle_input, KeyCode::Char('R')
KeyRefresh ==
    /\ poller.asked \/ poller.bursts < MaxBursts
    /\ refresh_rx' = try_send(refresh_rx)
    /\ status' = RefreshingStatus
    /\ status_sticky' = FALSE
    /\ poller' = [poller EXCEPT !.asked = TRUE,
                                !.dropped = @ \/ (refresh_rx' = refresh_rx),
                                !.bursts = IF poller.asked THEN @ ELSE @ + 1]
    /\ UNCHANGED <<notifications, my_prs, include_read, notification_overrides,
                   ignored_prs, input, pending, event_rx, exec_tasks, now>>
    /\ last_merge' = None
    /\ UNCHANGED <<stale_data, calls, review_tasks, loop_calls, ignores>>
    /\ UNCHANGED parser_vars

\* A variant in which AppEvent::Error also clears the command line;
\* C39_ErrorChangesStatusOnly tells it from HandleError.
HandleError_clears_commands ==
    /\ event_rx # <<>>
    /\ Head(event_rx).type = "Error"
    /\ event_rx' = Tail(event_rx)
    /\ status' = Some(clean_error_message(Head(event_rx).message))
    /\ status_sticky' = TRUE
    /\ input' = <<>>
    /\ pending' = EmptyMap
    /\ UNCHANGED <<notifications, my_prs, include_read, notification_overrides,
                   ignored_prs, exec_tasks, now>>
    /\ last_merge' = None
    /\ UNCHANGED <<stale_data, refresh_rx, calls, review_tasks, loop_calls, poller, ignores>>
    /\ UNCHANGED parser_vars

\* run_app: AppEvent::Error(message)
HandleError ==
    /\ event_rx # <<>>
    /\ Head(event_rx).type = "Error"
    /\ event_rx' = Tail(event_rx)
    /\ status' = Some(clean_error_message(Head(event_rx).message))
    /\ status_sticky' = TRUE
    /\ UNCHANGED <<notifications, my_prs, include_read, notification_overrides,
                   ignored_prs, input, pending, exec_tasks, now>>
    /\ last_merge' = None
    /\ UNCHANGED <<stale_data, refresh_rx, calls, review_tasks, loop_calls, poller, ignores>>
    /\ UNCHANGED parser_vars

NextPoller ==
    \/ PollerSend
    \/ PollerTick
    \/ PollerRecv
    \/ KeyRefresh
    \/ HandleData
    \/ HandleError

SpecPoller == InitPoller /\ [][NextPoller]_vars


\* ------------------------------------------------------------------------
\* Fetches that fail while the user works: a command is typed and submitted
\* and typed again while the poller sends Data and Error events
\* (SpecFailure).
\* ------------------------------------------------------------------------
\* One unread notification about a pull request and two of the user's pull
\* requests.
FailureScreens ==
    { screen \in ShortScreens :
        /\ screen.notifications[1].unread
        /\ screen.notifications[1].subject.kind = "PullRequest"
        /\ Len(screen.my_prs) = 2 }

\* The command line typed here, before and after it is submitted; Enter may
\* come after any prefix.
FailureTexts == { <<"1", "-", "2", "q">> }

KeyCharFailure == handle_text_input(FailureTexts)

\* AppState::new followed by lists as a refresh leaves them.
InitFailure ==
    /\ \E screen \in FailureScreens :
          /\ notifications = screen.notifications
          /\ my_prs = screen.my_prs
    /\ include_read = TRUE
    /\ notification_overrides = EmptyMap
    /\ ignored_prs = {}
    /\ input = <<>>
    /\ pending = EmptyMap
    /\ event_rx = <<>>
    /\ exec_tasks = <<>>
    /\ now = 1
    /\ last_merge = None
    /\ stale_data = [count |-> 0, ids |-> {}]
    /\ refresh_rx = 0
    /\ calls = {}
    /\ status = None
    /\ status_sticky = FALSE
    /\ review_tasks = <<>>
    /\ loop_calls = {}
    /\ poller = PollerStart
    /\ ignores = IgnoresStart
    /\ ParserIdle

NextFailure ==
    \/ KeyCharFailure
    \/ KeyEnterSubmit
    \/ PollerSend
    \/ PollerTick
    \/ HandleData
    \/ HandleError

SpecFailure == InitFailure /\ [][NextFailure]_vars

\* ------------------------------------------------------------------------
\* The Review action: submit_commands spawns a task that sends
\* AppEvent::Review, and the event loop runs nvim when it receives the
\* event (SpecReview).
\* ------------------------------------------------------------------------
\* A call the event loop makes of the file system or of another program,
\* with its outcome.
LoopCall(name, arg, ok) == [name |-> name, arg |-> arg, ok |-> ok]

\* How run_review_in_nvim may end: HOME and USERPROFILE are not set, the
\* repository is not under ~/Developer, nvim cannot be started, nvim exits
\* with a failure, nvim exits with success.
ReviewOutcomes == {"no_home", "no_dir", "no_launch", "exit_failure", "ok"}

\* The directory repo_dir_for_full_name builds for the repository of the
\* entries here.
RepoDir == "~/Developer/acme/widgets"

\* A variant that starts nvim without looking for the directory;
\* C28_LoopRunsReviewOnly tells it from run_review_in_nvim.
run_review_unchecked(request, outcome) ==
    IF ~url_contains_pull(request.pr_url)
    THEN [calls |-> {}, error |-> Some(<<"ReviewPR only supports pull request URLs">>)]
    ELSE IF outcome = "no_home"
    THEN [calls |-> {}, error |-> Some(<<"HOME/USERPROFILE is not set">>)]
    ELSE IF outcome = "no_dir"
    THEN [calls |-> { LoopCall("is_dir", RepoDir, FALSE),
                      LoopCall("nvim", request.pr_url, TRUE) },
          error |-> None]
    ELSE [calls |-> { LoopCall("is_dir", RepoDir, TRUE),
                      LoopCall("nvim", request.pr_url, outcome = "ok") },
          error |-> CASE outcome = "no_launch" -> Some(<<"failed to launch nvim">>)
                      [] outcome = "exit_failure" ->
                           Some(<<"nvim exited with status ", "exit status: 1">>)
                      [] OTHER -> None]

\* run_review_in_nvim: the calls it makes of the file system and of nvim,
\* and the error it returns (None for Ok).  Command::status waits for nvim
\* to exit.
run_review_in_nvim(request, outcome) ==
    IF ~url_contains_pull(request.pr_url)
    THEN [calls |-> {}, error |-> Some(<<"ReviewPR only supports pull request URLs">>)]
    ELSE IF outcome = "no_home"
    THEN [calls |-> {}, error |-> Some(<<"HOME/USERPROFILE is not set">>)]
    ELSE IF outcome = "no_dir"
    THEN [calls |-> { LoopCall("is_dir", RepoDir, FALSE) },
          error |-> Some(<<"repository directory not found: ", RepoDir>>)]
    ELSE [calls |-> { LoopCall("is_dir", RepoDir, TRUE),
                      LoopCall("nvim", request.pr_url, outcome = "ok") },
          error |-> CASE outcome = "no_launch" -> Some(<<"failed to launch nvim">>)
                      [] outcome = "exit_failure" ->
                           Some(<<"nvim exited with status ", "exit status: 1">>)
                      [] OTHER -> None]

\* The task spawned by submit_commands: app_event_tx.send(AppEvent::Review)
ReviewSend ==
    /\ Len(event_rx) < EventCapacity
    /\ \E i \in 1..Len(review_tasks) :
          /\ event_rx' = Append(event_rx, ReviewEvent(review_tasks[i]))
          /\ review_tasks' = RemoveAt(review_tasks, i - 1)
    /\ UNCHANGED <<notifications, my_prs, include_read, notification_overrides,
                   ignored_prs, input, pending, exec_tasks, now>>
    /\ last_merge' = None
    /\ UNCHANGED <<stale_data, refresh_rx, calls>>
    /\ UNCHANGED <<status, status_sticky, loop_calls, poller, ignores>>
    /\ UNCHANGED parser_vars

\* run_app: AppEvent::Review(request) => run_review_in_nvim on the event
\* loop, then the status line says how it ended.
HandleReview ==
    /\ event_rx # <<>>
    /\ Head(event_rx).type = "Review"
    /\ event_rx' = Tail(event_rx)
    /\ \E outcome \in ReviewOutcomes :
          LET run == run_review_in_nvim(Head(event_rx).request, outcome)
          IN /\ loop_calls' = loop_calls \cup run.calls
             /\ status' = IF run.error = None THEN Some(<<"ReviewPR finished">>)
                           ELSE run.error
             /\ status_sticky' = (run.error # None)
    /\ UNCHANGED <<notifications, my_prs, include_read, notification_overrides,
                   ignored_prs, input, pending, exec_tasks, now>>
    /\ last_merge' = None
    /\ UNCHANGED <<stale_data, refresh_rx, calls, review_tasks, poller, ignores>>
    /\ UNCHANGED parser_vars

\* spawn_poller: refresh_rx.recv() ends the wait, the fetch fails and the
\* error is sent to the event loop.
PollerRefreshFails ==
    /\ refresh_rx > 0
    /\ refresh_rx' = refresh_rx - 1
    /\ Len(event_rx) < EventCapacity
    /\ \E message \in FetchErrors : event_rx' = Append(event_rx, ErrorEvent(message))
    /\ UNCHANGED <<notifications, my_prs, include_read, notification_overrides,
                   ignored_prs, input, pending, exec_tasks, now>>
    /\ last_merge' = None
    /\ UNCHANGED <<stale_data, calls>>
    /\ UNCHANGED <<status, status_sticky, review_tasks, loop_calls, poller, ignores>>
    /\ UNCHANGED parser_vars

\* The command lines typed here; Enter may come after any prefix.
ReviewTexts == { <<"1", "p">>, <<"1", "r", "p">> }

\* The user types one of ReviewTexts.
KeyCharReview == handle_text_input(ReviewTexts)

\* AppState::new followed by lists as a refresh leaves them.
\* One unread notification, about a pull request or about an issue.
ReviewScreens ==
    { screen \in RecoverScreens :
        /\ screen.notifications[1].unread
        /\ screen.notifications[1].subject.kind \in {"PullRequest", "Issue"} }

InitReview ==
    /\ InitRecover
    /\ include_read = TRUE
    /\ \E screen \in ReviewScreens : notifications = screen.notifications

NextReview ==
    \/ KeyCharReview
    \/ KeyEnterNothing
    \/ KeyEnterSubmit
    \/ ExecRun
    \/ HandleCommandResult
    \/ ReviewSend
    \/ HandleReview
    \/ PollerRefreshFails
    \/ HandleError

SpecReview == InitReview /\ [][NextReview]_vars


\* ------------------------------------------------------------------------
\* The alias table: build_pending_map builds it with build_target_map from
\* the lists on the screen and hands it to the parser (SpecAlias).
\* ------------------------------------------------------------------------
\* Subject::status as subject_statuses builds it: a pull request may be a
\* draft and may be merged or closed, an issue may be closed.
AliasStatuses ==
    { {}, {"Draft"}, {"Merged"}, {"Closed"}, {"Draft", "Merged"}, {"Draft", "Closed"} }

\* Subject::review_status
AliasReviews ==
    { None, Some("ReviewRequired"), Some("Approved"), Some("ChangesRequested") }

\* The subjects of pull requests on the screen.
AliasSubjects(url) ==
    { Subject("PullRequest", flags, review, url) :
        flags \in AliasStatuses, review \in AliasReviews }

\* One notification of any subject, read or unread; after it none or one
\* that is an unread draft awaiting review; then none or one of the user's
\* pull requests.
AliasScreens ==
    { [notifications |-> first \o second, my_prs |-> prs] :
        first \in { <<Notification("n1", unread, TimeStrings[1], subject)>> :
                      unread \in BOOLEAN, subject \in AliasSubjects(PullUrl("n1")) },
        second \in { <<>>,
                     <<Notification("n2", TRUE, TimeStrings[1],
                                    Subject("PullRequest", {"Draft"},
                                            Some("ReviewRequired"), PullUrl("n2")))>> },
        prs \in { <<>> }
                \cup { <<MyPullRequest("pr1", TimeStrings[1], subject)>> :
                         subject \in { sub \in AliasSubjects(OwnPullUrl("pr1")) :
                                         sub.status \in { {}, {"Merged"} } } } }

\* The letters of push_status_targets and 'u'.
AliasLetters == {"u", "f", "m", "c", "?", "a", "x"}

\* AppState::new followed by lists as a refresh leaves them; no table yet.
InitAlias ==
    /\ \E screen \in AliasScreens :
          /\ notifications = screen.notifications
          /\ my_prs = screen.my_prs
    /\ include_read = TRUE
    /\ notification_overrides = EmptyMap
    /\ ignored_prs = {}
    /\ input = <<>>
    /\ pending = EmptyMap
    /\ event_rx = <<>>
    /\ exec_tasks = <<>>
    /\ now = 1
    /\ last_merge = None
    /\ stale_data = [count |-> 0, ids |-> {}]
    /\ refresh_rx = 0
    /\ calls = {}
    /\ status = None
    /\ status_sticky = FALSE
    /\ review_tasks = <<>>
    /\ loop_calls = {}
    /\ poller = PollerStart
    /\ ignores = IgnoresStart
    /\ ParserIdle

\* build_pending_map, its first statement: the table is built from the
\* lists, and the parser is about to start with it and with the count of
\* both lists.
BuildTargets ==
    /\ consumed = <<>>
    /\ targets' = build_target_map(notifications, my_prs)
    /\ notification_count' = Len(notifications) + Len(my_prs)
    /\ UNCHANGED <<consumed, current_digits, range_start, indices, after_action,
                   result>>
    /\ UNCHANGED app_vars

\* parse_commands reads a letter of the table as the first character of the
\* line.
ParseAlias ==
    /\ consumed = <<>>
    /\ notification_count = Len(notifications) + Len(my_prs)
    /\ \E ch \in AliasLetters :
          /\ Feed(ch)
          /\ SetParserState(on_target(CurrentParserState, ch, notification_count,
                                      targets))

NextAlias ==
    \/ BuildTargets
    \/ ParseAlias

SpecAlias == InitAlias /\ [][NextAlias]_vars


\* ------------------------------------------------------------------------
\* The ignore set: the user's pull requests come with every refresh, and
\* Unsubscribe on one of them adds its url to AppState::ignored_prs
\* (SpecIgnore).
\* ------------------------------------------------------------------------
\* What load_ignored_prs may have read at start: no file, or a file that
\* names pull request pr2.
LoadedIgnoreSets == { {}, {OwnPullUrl("pr2")} }

\* The user's open pull requests as the server reports them: pr1 is open
\* throughout, pr2 may be; the ignore set is unknown to the server.
FetchedOwnLists ==
    { <<OwnPullRequest("pr1")>>,
      <<OwnPullRequest("pr1"), OwnPullRequest("pr2")>>,
      <<OwnPullRequest("pr2"), OwnPullRequest("pr1")>> }

\* The notifications that come with them.
FetchedBesideOwn == { <<>>, <<Bystander>> }

\* The command lines typed here; Enter may come after any prefix.
IgnoreTexts == { <<"1", "q">>, <<"2", "q">>, <<"3", "q">>, <<"2", "o">> }

\* The user types one of IgnoreTexts.
KeyCharIgnore == handle_text_input(IgnoreTexts)

\* AppState::new(include_read, ignored_prs) with what load_ignored_prs read
InitIgnore ==
    /\ notifications = <<>>
    /\ my_prs = <<>>
    /\ include_read = TRUE
    /\ notification_overrides = EmptyMap
    /\ ignored_prs \in LoadedIgnoreSets
    /\ input = <<>>
    /\ pending = EmptyMap
    /\ event_rx = <<>>
    /\ exec_tasks = <<>>
    /\ now = 1
    /\ last_merge = None
    /\ stale_data = [count |-> 0, ids |-> {}]
    /\ refresh_rx = 0
    /\ calls = {}
    /\ status = None
    /\ status_sticky = FALSE
    /\ review_tasks = <<>>
    /\ loop_calls = {}
    /\ poller = PollerStart
    /\ ignores = IgnoresStart
    /\ ParserIdle

\* spawn_poller: one fetch succeeded and its result, with the user's pull
\* requests, was sent to the event loop.
PollerFetchOwn ==
    /\ Len(event_rx) < EventCapacity
    /\ InFlightData < MaxInFlightData
    /\ \E notifs \in FetchedBesideOwn, prs \in FetchedOwnLists :
          event_rx' = Append(event_rx, DataEvent(notifs, prs))
    /\ UNCHANGED <<notifications, my_prs, include_read, notification_overrides,
                   ignored_prs, input, pending, exec_tasks, now>>
    /\ last_merge' = None
    /\ UNCHANGED <<stale_data, refresh_rx, calls>>
    /\ UNCHANGED <<status, status_sticky, review_tasks, loop_calls, poller, ignores>>
    /\ UNCHANGED parser_vars

NextIgnore ==
    \/ PollerFetchOwn
    \/ HandleData
    \/ KeyCharIgnore
    \/ KeyEnterNothing
    \/ KeyEnterSubmit
    \/ ExecFinish
    \/ HandleCommandResult

SpecIgnore == InitIgnore /\ [][NextIgnore]_vars


\* ------------------------------------------------------------------------
\* src/ignore.rs: the ignore list on disk.  Executor tasks call
\* append_ignored_pr concurrently; the file is a sequence of lines
\* (SpecAppend).
\* ------------------------------------------------------------------------
\* How many calls of append_ignored_pr are made.
MaxAppends == 3

\* The tasks that call append_ignored_pr.
AppendTasks == {1, 2}

\* A line as the user may have left it in the file, with blanks around the
\* url of pull request pr2.
PaddedLine == "  https://github.com/acme/widgets/pull/12  "

CommentLine == "# pull requests I do not want to see"

\* str::trim, for the lines here
trim(line) == IF line = PaddedLine THEN OwnPullUrl("pr2") ELSE line

\* read_ignored_prs: the trimmed lines that are neither empty nor comments;
\* a file that does not exist reads as no lines.
read_ignored_prs(file) ==
    { trim(file[i]) : i \in { k \in 1..Len(file) :
                                /\ trim(file[k]) # ""
                                /\ trim(file[k]) # CommentLine } }

\* A variant in which the lock is never found taken;
\* C31_AppendIdempotent tells it from lock_free.
lock_ignored(holder) == TRUE

\* ignore_lock().lock(): the guard is granted when no one holds the lock
lock_free(holder) == holder = None

\* The file at start: none, or one the user has written by hand.
InitialIgnoreFiles ==
    { <<>>, <<CommentLine, "", PaddedLine>>, <<OwnPullUrl("pr1")>> }

\* The urls handed to append_ignored_pr: pr.url of the user's pull requests.
AppendedUrls == { OwnPullUrl("pr1"), OwnPullUrl("pr2") }

IdleTask == [pc |-> "idle", url |-> "", existing |-> {}]

AppendReturn(t, url, value) == [task |-> t, url |-> url, value |-> value]

OthersUnchanged ==
    /\ UNCHANGED <<notifications, my_prs, include_read, notification_overrides,
                   ignored_prs, input, pending, event_rx, exec_tasks, now>>
    /\ UNCHANGED <<last_merge, stale_data, refresh_rx, calls>>
    /\ UNCHANGED <<status, status_sticky, review_tasks, loop_calls, poller>>
    /\ UNCHANGED parser_vars

InitAppend ==
    /\ notifications = <<>>
    /\ my_prs = <<>>
    /\ include_read = TRUE
    /\ notification_overrides = EmptyMap
    /\ ignored_prs = {}
    /\ input = <<>>
    /\ pending = EmptyMap
    /\ event_rx = <<>>
    /\ exec_tasks = <<>>
    /\ now = 0
    /\ last_merge = None
    /\ stale_data = [count |-> 0, ids |-> {}]
    /\ refresh_rx = 0
    /\ calls = {}
    /\ status = None
    /\ status_sticky = FALSE
    /\ review_tasks = <<>>
    /\ loop_calls = {}
    /\ poller = PollerStart
    /\ \E file \in InitialIgnoreFiles :
          ignores = [file |-> file, lock |-> None,
                     tasks |-> [t \in AppendTasks |-> IdleTask],
                     returned |-> <<>>]
    /\ ParserIdle

\* The calls under way.
ActiveAppends == { t \in AppendTasks : ignores.tasks[t].pc # "idle" }

\* execute_action calls append_ignored_pr(url); the call waits for the lock.
AppendCall ==
    /\ Len(ignores.returned) + Cardinality(ActiveAppends) < MaxAppends
    /\ \E t \in AppendTasks, url \in AppendedUrls :
          /\ ignores.tasks[t].pc = "idle"
          /\ ignores' = [ignores EXCEPT
                           !.tasks[t] = [pc |-> "waiting", url |-> url, existing |-> {}]]
    /\ OthersUnchanged

\* append_ignored_pr: the guard is taken and the file is read; if the read
\* fails the call returns the error and the guard is dropped.
AppendRead ==
    /\ \E t \in AppendTasks :
          /\ ignores.tasks[t].pc = "waiting"
          /\ lock_free(ignores.lock)
          /\ \/ ignores' = [ignores EXCEPT
                              !.lock = Some(t),
                              !.tasks[t].pc = "holding",
                              !.tasks[t].existing = read_ignored_prs(ignores.file)]
             \/ ignores' = [ignores EXCEPT
                              !.tasks[t] = IdleTask,
                              !.returned = Append(@, AppendReturn(t, ignores.tasks[t].url,
                                                                  "Err"))]
    /\ OthersUnchanged

\* append_ignored_pr, after the read: Ok(false) if the url was read, else the
\* url is written as one more line and the call returns Ok(true), or the
\* file cannot be opened or written and the call returns the error; the
\* guard is dropped.
AppendWrite ==
    /\ \E t \in AppendTasks :
          LET task == ignores.tasks[t]
          IN /\ task.pc = "holding"
             /\ \E value \in (IF task.url \in task.existing
                                THEN {"false"} ELSE {"true", "Err"}) :
                   ignores' = [ignores EXCEPT
                                 !.file = IF value = "true"
                                          THEN Append(@, task.url) ELSE @,
                                 !.lock = None,
                                 !.tasks[t] = IdleTask,
                                 !.returned = Append(@, AppendReturn(t, task.url, value))]
    /\ OthersUnchanged

NextAppend ==
    \/ AppendCall
    \/ AppendRead
    \/ AppendWrite

SpecAppend == InitAppend /\ [][NextAppend]_vars


\* ------------------------------------------------------------------------
\* Properties of the parser
\* ------------------------------------------------------------------------
IsDigitRun(s) == s # <<>> /\ \A i \in 1..Len(s) : is_ascii_digit(s[i])

IsActionChar(ch) == Action_from_char(ch) # None

IsSeparatorChar(ch) == ch = " " \/ ch = ","

\* Not a digit, '-', ',', space, an action mnemonic or an alias character.
IsInvalidChar(ch) ==
    /\ ~is_ascii_digit(ch)
    /\ ch # "-"
    /\ ~IsSeparatorChar(ch)
    /\ ~IsActionChar(ch)
    /\ ~is_target_char(ch)

\* The decimal value of a run of digits.
RECURSIVE DigitsValue(_)
DigitsValue(ds) ==
    IF ds = <<>> THEN 0
    ELSE 10 * DigitsValue(SubSeq(ds, 1, Len(ds) - 1)) + to_digit(ds[Len(ds)])

\* The lengths of the prefixes of ds whose value lies in [1, n].
GoodPrefixLens(ds, n) ==
    { k \in 1..Len(ds) : DigitsValue(SubSeq(ds, 1, k)) \in 1..n }

\* Repeatedly take the longest prefix of the remaining digits whose value
\* lies in [1, n], until the digits are used up or no prefix has such a value.
RECURSIVE GreedyDecomposition(_, _)
GreedyDecomposition(ds, n) ==
    IF GoodPrefixLens(ds, n) = {} THEN <<>>
    ELSE LET k == SetMax(GoodPrefixLens(ds, n))
         IN <<DigitsValue(SubSeq(ds, 1, k))>>
            \o GreedyDecomposition(SubSeq(ds, k + 1, Len(ds)), n)

LastChar == consumed[Len(consumed)]

\* The actions recorded for index i, empty when i is no key of the map.
ActionsAt(res, i) == IF i \in DOMAIN res THEN res[i] ELSE <<>>

Repeat(a, k) == [j \in 1..k |-> a]

\* C1: every run of digits that is closed by a separator or an action
\* character (and is not the end of a range) adds to the selection the greedy
\* decomposition of the run: the longest prefix of the remaining digits whose
\* value lies in [1, N], repeatedly, left to right; an action character then
\* targets exactly the indices of the selection.
C1_GreedySplit ==
    [][ (/\ consumed' # consumed
         /\ current_digits # <<>>
         /\ range_start = None
         /\ (IsSeparatorChar(LastChar') \/ IsActionChar(LastChar')))
        => /\ indices' = indices \o GreedyDecomposition(current_digits, notification_count)
           /\ IsActionChar(LastChar')
                => DOMAIN result' = DOMAIN result \cup Range(indices') ]_vars

\* C1 witness: "123o" with 12 entities targets 12 and 3.
C1_Witness ==
    /\ notification_count = 12
    /\ consumed = <<"1", "2", "3", "o">>
    /\ result = (12 :> <<"Open">> @@ 3 :> <<"Open">>)

\* The input is a-bX: two runs of digits around one '-', then one action.
IsRangeCommand(s, k) ==
    /\ k \in 2..(Len(s) - 2)
    /\ s[k] = "-"
    /\ IsDigitRun(SubSeq(s, 1, k - 1))
    /\ IsDigitRun(SubSeq(s, k + 1, Len(s) - 1))
    /\ IsActionChar(s[Len(s)])

RangeLow(s, k) == Min(DigitsValue(SubSeq(s, 1, k - 1)), DigitsValue(SubSeq(s, k + 1, Len(s) - 1)))
RangeHigh(s, k) == Max(DigitsValue(SubSeq(s, 1, k - 1)), DigitsValue(SubSeq(s, k + 1, Len(s) - 1)))

\* C2 as claimed: for every input a-bX the indices that receive X are
\* {min(a,b)..max(a,b)} intersected with [1, N], each receiving X once.
C2_RangeClipped ==
    \A k \in 1..Len(consumed) :
        IsRangeCommand(consumed, k) =>
            result = [i \in (RangeLow(consumed, k)..RangeHigh(consumed, k))
                              \cap (1..notification_count)
                      |-> <<Action_from_char(LastChar)[1]>>]

\* C2 amended: for every input a-bX whose endpoints a and b both lie in
\* [1, N], the indices that receive X are exactly {min(a,b)..max(a,b)},
\* whatever the order of a and b.
C2_RangeOfValidEndpoints ==
    \A k \in 1..Len(consumed) :
        (/\ IsRangeCommand(consumed, k)
         /\ RangeLow(consumed, k) >= 1
         /\ RangeHigh(consumed, k) <= notification_count)
        => result = [i \in RangeLow(consumed, k)..RangeHigh(consumed, k)
                     |-> <<Action_from_char(LastChar)[1]>>]

\* C2 witness: the reversed range "3-1o" has reached 1, 2 and 3.
C2_Witness ==
    /\ consumed = <<"3", "-", "1", "o">>
    /\ notification_count = 12
    /\ result = [i \in 1..3 |-> <<"Open">>]

\* C3: an action character appends its action to every index of the
\* selection, once per occurrence of the index in it, after whatever the index
\* already has; and an action character that follows an action character
\* finds the selection as the previous one left it.
C3_ActionsAppendToSelection ==
    [][ (consumed' # consumed /\ IsActionChar(LastChar'))
        => /\ \A i \in DOMAIN result \cup DOMAIN result' \cup Range(indices') :
                ActionsAt(result', i) =
                    ActionsAt(result, i)
                    \o Repeat(Action_from_char(LastChar')[1], Count(indices', i))
           /\ after_action => indices' = indices
           /\ after_action' ]_vars

\* C3 witness: "1ood" has recorded Open, Open, Done at index 1.
C3_Witness ==
    /\ consumed = <<"1", "o", "o", "d">>
    /\ result = (1 :> <<"Open", "Open", "Done">>)
    /\ indices = <<1>>

\* C4: in an input that ends action, digit, action, the last action goes to
\* the index the digit names (if it is one) after the actions that index had,
\* and every other index keeps exactly the actions it had before the digit.
C4_DigitStartsNewSelection ==
    LET n == Len(consumed)
    IN (/\ n >= 3
        /\ IsActionChar(consumed[n])
        /\ is_ascii_digit(consumed[n - 1])
        /\ IsActionChar(consumed[n - 2]))
       => LET before == parse_commands(SubSeq(consumed, 1, n - 2),
                                       notification_count, targets)
              d == to_digit(consumed[n - 1])
          IN /\ indices = IF d \in 1..notification_count THEN <<d>> ELSE <<>>
             /\ \A i \in 1..notification_count :
                   ActionsAt(result, i) =
                       IF i = d
                       THEN ActionsAt(before, i) \o <<Action_from_char(consumed[n])[1]>>
                       ELSE ActionsAt(before, i)
             /\ DOMAIN result \subseteq 1..notification_count

\* C4 witness: "1o2d" gives 1 -> [Open], 2 -> [Done].
C4_Witness ==
    /\ consumed = <<"1", "o", "2", "d">>
    /\ result = (1 :> <<"Open">> @@ 2 :> <<"Done">>)

\* The per-index concatenation of two result maps.
MergeMaps(r1, r2) ==
    [i \in DOMAIN r1 \cup DOMAIN r2 |-> ActionsAt(r1, i) \o ActionsAt(r2, i)]

\* C5: right after an invalid character the digit buffer, the range start and
\* the selection are empty; and an input with an invalid character at k parses
\* to what its part before k parses to, followed index by index by what its
\* part after k parses to on its own: nothing selected before k receives an
\* action typed after it, and what was recorded before k is kept.
C5_InvalidCharResets ==
    \A k \in 1..Len(consumed) :
        IsInvalidChar(consumed[k])
        => /\ k = Len(consumed)
                => /\ current_digits = <<>>
                   /\ range_start = None
                   /\ indices = <<>>
           /\ result = MergeMaps(
                 parse_commands(SubSeq(consumed, 1, k - 1), notification_count, targets),
                 parse_commands(SubSeq(consumed, k + 1, Len(consumed)),
                                notification_count, targets))

\* C5 witness: in "1ozd" the Done after the invalid character reaches nothing
\* and the Open before it is kept.
C5_Witness ==
    /\ consumed = <<"1", "o", "z", "d">>
    /\ result = (1 :> <<"Open">>)

Ids(list) == { list[i].id : i \in 1..Len(list) }

IsReadAction(a) == a \in {"Open", "Read"}

IsSuppressAction(a) == a \in {"Done", "Unsubscribe"}

\* The list the refresh at the head of the channel carries.
Fetched == Head(event_rx).notifications

\* The map submit_commands hands to apply_optimistic_update.
SubmittedCommands == without_review(build_pending_map(input, notifications, my_prs))

\* The notifications a submitted map targets: index and actions.
SubmittedToNotifications ==
    { index \in DOMAIN SubmittedCommands : index \in 1..Len(notifications) }

Timestamp(n) == parse_updated_at(n.updated_at)

\* The step is the event loop handing a refresh to set_data.
IsRefreshStep == last_merge' # None

\* The step is submit_commands spawning an executor task.
IsSubmitStep == Len(exec_tasks') > Len(exec_tasks)

\* C7: a submitted Done or Unsubscribe takes the notification out of the
\* visible list and records Suppress with the current time. A later refresh
\* that reports a notification with a Suppress entry and an updated_at not
\* newer than the entry's time leaves it out of the visible list and keeps
\* the entry as it is; a refresh that reports a strictly newer updated_at
\* shows the notification exactly as reported and removes the entry.
C7_SuppressUntilNewActivity ==
    [][ /\ IsSubmitStep =>
              \A index \in SubmittedToNotifications :
                  (\E a \in Range(SubmittedCommands[index]) : IsSuppressAction(a))
                  => LET id == notifications[index].id
                     IN /\ id \notin Ids(notifications')
                        /\ id \in DOMAIN notification_overrides'
                        /\ notification_overrides'[id] = NotificationOverride("Suppress", now)
        /\ IsRefreshStep =>
              \A i \in 1..Len(Fetched) :
                  LET n == Fetched[i]
                  IN (/\ n.id \in DOMAIN notification_overrides
                      /\ notification_overrides[n.id].state = "Suppress")
                     => IF Timestamp(n) <= notification_overrides[n.id].marked_at
                        THEN /\ n.id \notin Ids(notifications')
                             /\ n.id \in DOMAIN notification_overrides'
                             /\ notification_overrides'[n.id] = notification_overrides[n.id]
                        ELSE /\ n \in Range(notifications')
                             /\ n.id \notin DOMAIN notification_overrides'
      ]_vars

\* C7 witness: one refresh has met two Suppress entries; the notification it
\* reports with newer activity is visible as reported and its entry is gone,
\* the one it reports without newer activity is hidden and its entry is kept.
C7_Witness ==
    /\ last_merge # None
    /\ LET m == last_merge[1]
       IN \E i, j \in 1..Len(m.fetched) :
             LET a == m.fetched[i]
                 b == m.fetched[j]
             IN /\ a.id \in DOMAIN m.overrides
                /\ m.overrides[a.id].state = "Suppress"
                /\ Timestamp(a) > m.overrides[a.id].marked_at
                /\ a \in Range(notifications)
                /\ a.id \notin DOMAIN notification_overrides
                /\ b.id \in DOMAIN m.overrides
                /\ m.overrides[b.id].state = "Suppress"
                /\ Timestamp(b) <= m.overrides[b.id].marked_at
                /\ b.id \notin Ids(notifications)
                /\ b.id \in DOMAIN notification_overrides

\* C8: when the actions one optimistic update applies to a notification
\* include a read-type and a suppress-type action, in either order, the entry
\* recorded for it is Suppress; and a Suppress entry of the ledger stays
\* Suppress whatever state an optimistic update records over it, and no step
\* turns it into Read.
C8_SuppressDominates ==
    [][ /\ IsSubmitStep =>
              \A index \in SubmittedToNotifications :
                  (/\ \E a \in Range(SubmittedCommands[index]) : IsReadAction(a)
                   /\ \E a \in Range(SubmittedCommands[index]) : IsSuppressAction(a))
                  => LET id == notifications[index].id
                     IN /\ id \in DOMAIN notification_overrides'
                        /\ notification_overrides'[id].state = "Suppress"
        /\ \A id \in DOMAIN notification_overrides :
              notification_overrides[id].state = "Suppress"
              => /\ \A state \in {"Read", "Suppress"} :
                       record_notification_override(notification_overrides, id,
                                                    state, now)[id].state = "Suppress"
                 /\ id \in DOMAIN notification_overrides'
                       => notification_overrides'[id].state = "Suppress"
      ]_vars

\* C8 witness: the update that applied Done and then Open to the first
\* notification has recorded Suppress for it.
C8_Witness ==
    \E task \in Range(exec_tasks) :
        /\ 1 \in DOMAIN task.commands
        /\ task.commands[1] = <<"Done", "Open">>
        /\ task.notifications # <<>>
        /\ task.notifications[1].id \in DOMAIN notification_overrides
        /\ notification_overrides[task.notifications[1].id].state = "Suppress"

\* C9: a refresh that reports a notification with a Read entry and no newer
\* activity shows it with unread = false in the include-read view and leaves
\* it out in the unread-only view; a notification without an entry is shown
\* exactly as reported.
C9_ReadOverrideMerge ==
    [][ IsRefreshStep =>
          \A i \in 1..Len(Fetched) :
              LET n == Fetched[i]
              IN /\ n.id \notin DOMAIN notification_overrides
                      => n \in Range(notifications')
                 /\ (/\ n.id \in DOMAIN notification_overrides
                     /\ notification_overrides[n.id].state = "Read"
                     /\ Timestamp(n) <= notification_overrides[n.id].marked_at)
                    => IF include_read
                       THEN /\ [n EXCEPT !.unread = FALSE] \in Range(notifications')
                            /\ \A j \in 1..Len(notifications') :
                                  notifications'[j].id = n.id => ~notifications'[j].unread
                       ELSE n.id \notin Ids(notifications')
      ]_vars

\* C9 witness: in the include-read view one refresh has reported as unread a
\* notification with a Read entry, which is visible as read, and a
\* notification without an entry, which is visible as reported.
C9_Witness ==
    /\ last_merge # None
    /\ include_read
    /\ LET m == last_merge[1]
       IN \E i, j \in 1..Len(m.fetched) :
             LET a == m.fetched[i]
                 b == m.fetched[j]
             IN /\ a.id \in DOMAIN m.overrides
                /\ m.overrides[a.id].state = "Read"
                /\ Timestamp(a) <= m.overrides[a.id].marked_at
                /\ a.unread
                /\ [a EXCEPT !.unread = FALSE] \in Range(notifications)
                /\ a \notin Range(notifications)
                /\ b.id \notin DOMAIN m.overrides
                /\ b \in Range(notifications)

\* The refresh reports id with activity newer than its entry knows of.
ReportedNewer(id) ==
    \E i \in 1..Len(Fetched) :
        /\ Fetched[i].id = id
        /\ Timestamp(Fetched[i]) > notification_overrides[id].marked_at

\* The refresh reports id as read already, to a view that includes read.
ReportedRead(id) ==
    \E i \in 1..Len(Fetched) :
        /\ Fetched[i].id = id
        /\ include_read
        /\ ~Fetched[i].unread

\* C10 as claimed: only a refresh removes entries, and it removes the entry
\* of a notification if and only if it reports the notification with an
\* updated_at strictly newer than the entry's time; every other entry stays
\* as it is.
C10_RemovedOnlyWhenNewer ==
    [][ /\ ~IsRefreshStep => DOMAIN notification_overrides \subseteq DOMAIN notification_overrides'
        /\ IsRefreshStep =>
              \A id \in DOMAIN notification_overrides :
                  /\ id \notin DOMAIN notification_overrides' <=> ReportedNewer(id)
                  /\ id \in DOMAIN notification_overrides'
                        => notification_overrides'[id] = notification_overrides[id]
      ]_vars

\* C10 amended: only a refresh removes entries, and it removes the entry of
\* a notification if and only if it reports the notification with an
\* updated_at strictly newer than the entry's time, or the entry is Read, the
\* view includes read notifications and the refresh reports the notification
\* as read; every other entry, that of a notification missing from the
\* refresh included, stays as it is.
C10_RemovedWhenNewerOrAcknowledged ==
    [][ /\ ~IsRefreshStep => DOMAIN notification_overrides \subseteq DOMAIN notification_overrides'
        /\ IsRefreshStep =>
              \A id \in DOMAIN notification_overrides :
                  /\ id \notin DOMAIN notification_overrides'
                        <=> \/ ReportedNewer(id)
                            \/ notification_overrides[id].state = "Read" /\ ReportedRead(id)
                  /\ id \in DOMAIN notification_overrides'
                        => notification_overrides'[id] = notification_overrides[id]
      ]_vars

\* C10 witness: one refresh has met two entries; the one whose notification
\* it reports with newer activity is gone, the one whose notification it does
\* not report is kept as it was.
C10_Witness ==
    /\ last_merge # None
    /\ LET m == last_merge[1]
       IN \E id1, id2 \in DOMAIN m.overrides :
             /\ \E i \in 1..Len(m.fetched) :
                   /\ m.fetched[i].id = id1
                   /\ Timestamp(m.fetched[i]) > m.overrides[id1].marked_at
             /\ id1 \notin DOMAIN notification_overrides
             /\ id2 \notin Ids(m.fetched)
             /\ id2 \in DOMAIN notification_overrides
             /\ notification_overrides[id2] = m.overrides[id2]

\* ------------------------------------------------------------------------
\* Properties of refreshes that race with the user
\* ------------------------------------------------------------------------
\* The notifications an executor task was spawned for, as the list showed
\* them when the user submitted: the versions the user acted on.
ActedOn(task) ==
    { task.notifications[index] :
        index \in { i \in DOMAIN task.commands :
                        /\ i \in 1..Len(task.notifications)
                        /\ \E a \in Range(task.commands[i]) :
                              IsReadAction(a) \/ IsSuppressAction(a) } }

\* C11 as claimed: a refresh that reports a notification in a version newer
\* than the version the user acted on shows the notification as reported,
\* whatever the user did to it.
C11_NewerVersionResurfaces ==
    [][ IsRefreshStep =>
          \A k \in 1..Len(exec_tasks) :
              \A acted \in ActedOn(exec_tasks[k]) :
                  \A i \in 1..Len(Fetched) :
                      (/\ Fetched[i].id = acted.id
                       /\ Timestamp(Fetched[i]) > Timestamp(acted))
                      => Fetched[i] \in Range(notifications')
      ]_vars

C16_PreviewMatchesExecution ==
    pending = build_pending_map(input, notifications, my_prs)

\* A refresh has been merged while a command was on the line, and the
\* preview shows actions for what the refresh brought.
C16_Witness ==
    /\ last_merge # None
    /\ input # <<>>
    /\ pending # EmptyMap
    /\ \E index \in DOMAIN pending : Len(pending[index]) = 2

\* What parse_commands returns for the line, before the filter.
Parsed ==
    parse_commands(input, Len(notifications) + Len(my_prs),
                   build_target_map(notifications, my_prs))

\* The indices that name one of the user's pull requests.
PullRequestIndices == (Len(notifications) + 1)..(Len(notifications) + Len(my_prs))

NamesPullRequest(kind) == kind \in {"PullRequest", "pullrequest"}

ExpectedNotification(n, actions) ==
    IF \E a \in Range(actions) : IsSuppressAction(a) THEN <<>>
    ELSE IF \E a \in Range(actions) : IsReadAction(a)
         THEN IF include_read THEN <<[n EXCEPT !.unread = FALSE]>> ELSE <<>>
         ELSE <<n>>

RECURSIVE ExpectedNotifications(_, _)
ExpectedNotifications(commands, i) ==
    IF i > Len(notifications) THEN <<>>
    ELSE ExpectedNotification(notifications[i], ActionsAt(commands, i))
         \o ExpectedNotifications(commands, i + 1)

\* The ledger entry of a notification after the user submitted `actions` for
\* it: Suppress or Read at the current time, or what it was.
ExpectedOverride(id, actions) ==
    IF \E a \in Range(actions) : IsSuppressAction(a)
    THEN Some(NotificationOverride("Suppress", now))
    ELSE IF \E a \in Range(actions) : IsReadAction(a)
         THEN Some(NotificationOverride("Read", now))
         ELSE IF id \in DOMAIN notification_overrides
              THEN Some(notification_overrides[id])
              ELSE None

\* C17: submitting commands changes the visible notifications thus: one
\* with Done or Unsubscribe is removed in either view; one with Open or Read
\* (and neither of those) has its unread flag cleared and is removed in the
\* unread-only view only; any other stays as it is, in its place.  The
\* first kind gets a Suppress entry, the second a Read entry, under its id,
\* and no other entry changes.
C17_OptimisticNotification ==
    [][ IsSubmitStep =>
          /\ notifications' = ExpectedNotifications(SubmittedCommands, 1)
          /\ \A i \in 1..Len(notifications) :
                LET id == notifications[i].id
                    expected == ExpectedOverride(id, ActionsAt(SubmittedCommands, i))
                IN IF expected = None
                   THEN id \notin DOMAIN notification_overrides'
                   ELSE /\ id \in DOMAIN notification_overrides'
                        /\ notification_overrides'[id] = expected[1]
      ]_vars

\* Read has just been submitted for an unread notification in the view that
\* includes read ones: it is still listed, read, with a Read entry.
C17_Witness ==
    /\ include_read
    /\ exec_tasks # <<>>
    /\ LET task == exec_tasks[Len(exec_tasks)]
       IN /\ task.commands = (1 :> <<"Read">>)
          /\ task.notifications[1].unread
          /\ notifications # <<>>
          /\ notifications[1] = [task.notifications[1] EXCEPT !.unread = FALSE]
          /\ task.notifications[1].id \in DOMAIN notification_overrides
          /\ notification_overrides[task.notifications[1].id].state = "Read"

\* The positions in my_prs for which the submitted commands hold Unsubscribe.
IgnoredPositions(commands) ==
    { k \in 1..Len(my_prs) :
        Contains(ActionsAt(commands, Len(notifications) + k), "Unsubscribe") }

RECURSIVE ExpectedPullRequests(_, _)
ExpectedPullRequests(commands, k) ==
    IF k > Len(my_prs) THEN <<>>
    ELSE (IF k \in IgnoredPositions(commands) THEN <<>> ELSE <<my_prs[k]>>)
         \o ExpectedPullRequests(commands, k + 1)

\* C18: submitting commands removes from the list of the user's pull
\* requests exactly those with Unsubscribe among their actions and adds
\* exactly their urls to the ignore set; every other pull request stays in
\* its place.
C18_OptimisticIgnore ==
    [][ IsSubmitStep =>
          /\ my_prs' = ExpectedPullRequests(SubmittedCommands, 1)
          /\ ignored_prs' =
                ignored_prs \cup { my_prs[k].url : k \in IgnoredPositions(SubmittedCommands) }
      ]_vars

\* Unsubscribe has just been submitted for the second of two pull requests:
\* the first is still listed and the url of the second is ignored.
C18_Witness ==
    /\ exec_tasks # <<>>
    /\ LET task == exec_tasks[Len(exec_tasks)]
       IN /\ Len(task.notifications) = 1
          /\ Len(task.my_prs) = 2
          /\ task.commands = (3 :> <<"Unsubscribe">>)
          /\ my_prs = <<task.my_prs[1]>>
          /\ ignored_prs = {task.my_prs[2].url}
          /\ task.my_prs[1].url # task.my_prs[2].url

\* The indices of the unread notifications on the screen.
UnreadIndices == { i \in 1..Len(notifications) : notifications[i].unread }

\* C20: while the line reads "u d" the preview has exactly the indices of
\* the unread notifications, each with [Done]; submitting it leaves exactly
\* the notifications that were not unread, in their order.
C20_UnreadDone ==
    /\ [](input = <<"u", " ", "d">> =>
             pending = [i \in UnreadIndices |-> <<"Done">>])
    /\ [][ (IsSubmitStep /\ input = <<"u", " ", "d">>) =>
             notifications' = SelectSeq(notifications, LAMBDA n : ~n.unread)
        ]_vars

\* "u d" has just been submitted on five notifications of which three were
\* unread, in the unread-only view: the two others are what is left.
C20_Witness ==
    /\ ~include_read
    /\ exec_tasks # <<>>
    /\ LET task == exec_tasks[Len(exec_tasks)]
           unread == { i \in 1..5 : task.notifications[i].unread }
       IN /\ Len(task.notifications) = 5
          /\ Cardinality(unread) = 3
          /\ task.commands = [i \in unread |-> <<"Done">>]
          /\ Len(notifications) = 2
          /\ notifications = SelectSeq(task.notifications, LAMBDA n : ~n.unread)

\* ------------------------------------------------------------------------
\* Properties of the executor
\* ------------------------------------------------------------------------
\* The text is that of a JoinError: the task panicked.
IsJoinError(text) == Head(text) = "task "

\* The step is an executor task running and reporting.
IsExecuteStep == Len(exec_tasks') < Len(exec_tasks)

\* The calls that go to the remote service.
NetworkCalls == {"mark_as_read", "mark_as_done", "unsubscribe"}

\* The calls of record `made` that concern pull request `pr`: by its url, or
\* by an id of the remote service derived from its id.
CallsAbout(made, pr) ==
    { c \in made : IF c.name \in NetworkCalls THEN c.arg[2] = pr.id
                                                ELSE c.arg = pr.subject.url }

\* What the task at position i is to do with the pull request at position k
\* of its snapshot.
ActionsForPullRequest(task, k) ==
    Range(ActionsAt(task.commands, Len(task.notifications) + k))

\* The calls an executor task with these actions for a pull request is to
\* make about it: what is left to the browser, the clipboard and the file.
LocalCallNames(actions) ==
    { name \in {"open_in_browser", "copy_to_clipboard", "append_ignored_pr"} :
        \/ name = "open_in_browser" /\ "Open" \in actions
        \/ name = "copy_to_clipboard" /\ "Yank" \in actions
        \/ name = "append_ignored_pr" /\ "Unsubscribe" \in actions }

\* C19: the calls an executor task makes about one of the user's pull
\* requests are open_in_browser for Open, copy_to_clipboard for Yank and
\* append_ignored_pr with its url for Unsubscribe, and no other: no call to
\* the remote service whatever the actions, and no call at all for Read
\* and Done.  Unless a task panicked, each of these calls is made.
C19_PullRequestStaysLocal ==
    [][ IsExecuteStep =>
          \E i \in 1..Len(exec_tasks) :
              /\ exec_tasks' = RemoveAt(exec_tasks, i - 1)
              /\ LET task == exec_tasks[i]
                     errors == event_rx'[Len(event_rx')].summary.errors
                 IN \A k \in 1..Len(task.my_prs) :
                       LET about == CallsAbout(calls' \ calls, task.my_prs[k])
                           actions == ActionsForPullRequest(task, k)
                       IN /\ \A c \in about : c.name \notin NetworkCalls
                          /\ { c.name : c \in about } \subseteq LocalCallNames(actions)
                          /\ (\A e \in Range(errors) : ~IsJoinError(e))
                                => { c.name : c \in about } = LocalCallNames(actions)
      ]_vars

\* A task with Unsubscribe for the first of the user's pull requests has
\* run and reported no failure: the one call made is the append to the
\* ignore file, with the url of that pull request.
C19_Witness ==
    /\ exec_tasks = <<>>
    /\ Len(notifications) = 1
    /\ Len(my_prs) >= 1
    /\ calls = { [name |-> "append_ignored_pr", arg |-> my_prs[1].url, ok |-> TRUE] }
    /\ event_rx # <<>>
    /\ event_rx[1].type = "CommandResult"
    /\ event_rx[1].summary.failed = 0

\* The step is the event loop handling the summary of an executor task.
IsCommandResultStep ==
    /\ event_rx # <<>>
    /\ Head(event_rx).type = "CommandResult"
    /\ event_rx' = Tail(event_rx)

\* A call to the remote service about notification n has failed and none
\* has succeeded.
RemoteCallFailedFor(n) ==
    /\ \E c \in calls : c.name \in NetworkCalls /\ c.arg[2] = n.id /\ ~c.ok
    /\ \A c \in calls : (c.name \in NetworkCalls /\ c.arg[2] = n.id) => ~c.ok

\* C13 as claimed: when the summary of a task reports a failed action that
\* changes remote state, a refresh is requested; and a refresh merged when
\* every task has reported shows each notification for which the remote
\* calls failed as the server reports it.
C13_FailureReconciled ==
    /\ [][ (IsCommandResultStep /\ Head(event_rx).summary.api_failed)
             => refresh_rx' > 0 ]_vars
    /\ [][ (IsRefreshStep /\ UnsettledTasks = 0) =>
             \A i \in 1..Len(Fetched) :
                 RemoteCallFailedFor(Fetched[i])
                 => Fetched[i] \in Range(notifications')
        ]_vars

\* The (index, action) pairs of a task whose index names an entry of its
\* snapshot: <<index, position in the list of actions>>.
DispatchedPairs(task) ==
    { pair \in (DOMAIN task.commands) \X (1..2) :
        /\ pair[1] >= 1
        /\ pair[1] <= Len(task.notifications) + Len(task.my_prs)
        /\ pair[2] <= Len(task.commands[pair[1]]) }

\* The calls the action of a pair is to make.
PlannedCalls(task, pair) ==
    LET entry == entry_for_index(pair[1], task.notifications, task.my_prs)[1]
    IN action_calls(task.commands[pair[1]][pair[2]], entry, entry_url(entry))

\* The summary the step has sent to the event loop.
SentSummary == event_rx'[Len(event_rx')].summary

\* `made` has a call by this name and with this argument, whatever its outcome.
OnRecord(made, call) == \E c \in made : c.name = call.name /\ c.arg = call.arg

\* C21: an executor task runs one action for every (index, action) pair of
\* its map whose index names an entry of its snapshot, and no other.  The
\* summary counts each pair once, as succeeded or as failed.  Every call on
\* record is a call of one of the pairs, and the only pairs that have calls
\* to make and of which no call is on record are those whose own task
\* panicked: the failure of one pair keeps no other from running.
C21_EveryTaskAwaited ==
    [][ IsExecuteStep =>
          \E i \in 1..Len(exec_tasks) :
              /\ exec_tasks' = RemoveAt(exec_tasks, i - 1)
              /\ LET task == exec_tasks[i]
                     pairs == DispatchedPairs(task)
                     made == calls' \ calls
                     silent == { pair \in pairs :
                                   /\ PlannedCalls(task, pair) # <<>>
                                   /\ ~OnRecord(made, PlannedCalls(task, pair)[1]) }
                 IN /\ SentSummary.succeeded + SentSummary.failed = Cardinality(pairs)
                    /\ Len(SentSummary.errors) = SentSummary.failed
                    /\ \A c \in made :
                          \E pair \in pairs :
                              \E k \in 1..Len(PlannedCalls(task, pair)) :
                                  /\ PlannedCalls(task, pair)[k].name = c.name
                                  /\ PlannedCalls(task, pair)[k].arg = c.arg
                    /\ Cardinality(silent)
                          <= Cardinality({ k \in 1..Len(SentSummary.errors) :
                                             IsJoinError(SentSummary.errors[k]) })
      ]_vars

\* A task with Open for the notification and Unsubscribe for the first of
\* the user's pull requests has run: the browser failed to open, and the
\* url of the pull request was appended to the ignore file all the same; the
\* summary counts one action failed and one succeeded.
C21_Witness ==
    /\ exec_tasks = <<>>
    /\ event_rx # <<>>
    /\ event_rx[1].type = "CommandResult"
    /\ event_rx[1].summary.succeeded = 1
    /\ event_rx[1].summary.failed = 1
    /\ \E c \in calls : c.name = "open_in_browser" /\ ~c.ok
    /\ \E c \in calls : c.name = "append_ignored_pr" /\ c.ok

\* C22 as claimed: no error text is twice in the error list of a summary.
C22_ErrorsDeduplicated ==
    \A i \in 1..Len(event_rx) :
        event_rx[i].type = "CommandResult" =>
            \A j, k \in 1..Len(event_rx[i].summary.errors) :
                event_rx[i].summary.errors[j] = event_rx[i].summary.errors[k] => j = k

\* The calls the step has put on record as failed.
FailedCalls == { c \in calls' \ calls : ~c.ok }

\* The calls that stay on the user's machine.
LocalCalls == {"open_in_browser", "copy_to_clipboard"}

\* C23 as claimed: when the only failures of a task are failures to open the
\* browser or to copy to the clipboard, the summary reports them and does
\* not say that an action that changes remote state failed; and the event
\* loop requests a refresh for a summary only if it says so.
C23_LocalFailureNoRefresh ==
    /\ [][ (/\ IsExecuteStep
            /\ FailedCalls # {}
            /\ \A c \in FailedCalls : c.name \in LocalCalls
            /\ \A e \in Range(SentSummary.errors) : ~IsJoinError(e))
           => /\ SentSummary.failed >= Cardinality(FailedCalls)
              /\ ~SentSummary.api_failed ]_vars
    /\ [][ (IsCommandResultStep /\ ~Head(event_rx).summary.api_failed)
             => refresh_rx' = refresh_rx ]_vars

\* C23 as amended: the summary counts every failure, and it says that an
\* action that changes remote state failed exactly when a task panicked or
\* a call other than the copy to the clipboard failed, be it a call to the
\* remote service, the launch of the browser for Open or the append to the
\* ignore file for Unsubscribe.  The event loop requests a refresh for a
\* summary exactly when it says so.
C23_FailureOfApiAction ==
    /\ [][ IsExecuteStep
           => /\ Cardinality(FailedCalls) <= SentSummary.failed
              /\ SentSummary.api_failed
                   = (\/ \E c \in FailedCalls : c.name # "copy_to_clipboard"
                      \/ \E e \in Range(SentSummary.errors) : IsJoinError(e)) ]_vars
    /\ [][ IsCommandResultStep
           => refresh_rx' = IF Head(event_rx).summary.api_failed
                            THEN RefreshCapacity ELSE refresh_rx ]_vars

\* The clipboard was not to be had for a Yank: the event loop has handled
\* the summary, the status line shows the error and stays, and no refresh is
\* requested.
C23_Witness ==
    /\ exec_tasks = <<>>
    /\ event_rx = <<>>
    /\ calls # {}
    /\ \A c \in calls : c.name = "copy_to_clipboard" /\ ~c.ok
    /\ status = Some(<<"no clipboard on this display">>)
    /\ status_sticky
    /\ refresh_rx = 0

\* C24: when the event loop handles a summary with a failed action, the
\* status line shows the first error text and stays, and a refresh is
\* requested exactly if api_failed or refresh is set; when it handles a
\* summary with none, the status line shows "Executed <succeeded> actions",
\* does not stay, and a refresh is requested exactly if refresh is set.  A
\* request is one more message in the refresh channel, unless it is full.
C24_CommandStatus ==
    [][ IsCommandResultStep =>
          LET summary == Head(event_rx).summary
              requested == IF summary.failed > 0
                           THEN summary.api_failed \/ summary.refresh
                           ELSE summary.refresh
          IN /\ IF summary.failed > 0
                THEN status' = Some(summary.errors[1]) /\ status_sticky'
                ELSE /\ status' = Some(<<"Executed ", Decimal(summary.succeeded),
                                         " actions">>)
                     /\ ~status_sticky'
             /\ refresh_rx' = IF requested /\ refresh_rx < RefreshCapacity
                              THEN refresh_rx + 1 ELSE refresh_rx
      ]_vars

\* A summary of two failed actions, none of them an API action, and with
\* the refresh flag has been handled: the status shows the first of its two
\* different errors and stays, and the refresh channel holds a request.
C24_Witness ==
    /\ event_rx = <<>>
    /\ status = Some(<<"no clipboard on this display">>)
    /\ status_sticky
    /\ refresh_rx = RefreshCapacity

\* ------------------------------------------------------------------------
\* Properties of the event loop and its tasks
\* ------------------------------------------------------------------------
\* The task that the step has spawned.
SpawnedTask == exec_tasks'[Len(exec_tasks')]

\* The ids of the notifications for which the map holds an action that
\* changes them.
TouchedIds(task) ==
    { task.notifications[i].id :
        i \in { j \in DOMAIN task.commands \cap 1..Len(task.notifications) :
                  \E a \in Range(task.commands[j]) : IsReadAction(a) \/ IsSuppressAction(a) } }

\* C25: in the step in which submit_commands spawns an executor task, the
\* lists and the ledger take the values of the optimistic update: the
\* notifications and pull requests the commands remove are gone, the
\* others are shown read where a command says so, and every notification
\* acted on has its ledger entry, dated now.  In that step no call of the
\* task is on record and no event is taken from the channel: the task is
\* still to run.  When it runs and when its summary is handled, the lists,
\* the ledger and the ignore set stay as they are.
C25_UpdateBeforeDispatch ==
    /\ [][ IsSubmitStep =>
             /\ notifications' = ExpectedNotifications(SpawnedTask.commands, 1)
             /\ my_prs' = ExpectedPullRequests(SpawnedTask.commands, 1)
             /\ \A id \in TouchedIds(SpawnedTask) :
                   /\ id \in DOMAIN notification_overrides'
                   /\ notification_overrides'[id].marked_at = now
             /\ SpawnedTask.notifications = notifications
             /\ SpawnedTask.my_prs = my_prs
             /\ calls' = calls
             /\ event_rx' = event_rx
         ]_vars
    /\ [][ (IsExecuteStep \/ IsCommandResultStep) =>
             UNCHANGED <<notifications, my_prs, notification_overrides, ignored_prs>>
         ]_vars

\* Done has just been submitted for the one notification: it is gone from
\* the list and suppressed in the ledger while the task that is to tell the
\* remote service has made no call yet.
C25_Witness ==
    /\ Len(exec_tasks) = 1
    /\ exec_tasks[1].commands = (1 :> <<"Done">>)
    /\ Len(exec_tasks[1].notifications) = 1
    /\ notifications = <<>>
    /\ exec_tasks[1].notifications[1].id \in DOMAIN notification_overrides
    /\ notification_overrides[exec_tasks[1].notifications[1].id].state = "Suppress"
    /\ calls = {}
    /\ event_rx = <<>>
    /\ status = Some(<<"Executing ", "1", " actions...">>)

\* The entity at a position of the numbered list that a task was handed:
\* the notifications first, then the user's pull requests.
SnapshotEntity(task, index) ==
    IF index <= Len(task.notifications)
    THEN task.notifications[index]
    ELSE task.my_prs[index - Len(task.notifications)]

\* The call names the entity: by an id the remote service knows it by, or
\* by its url.
CallNames(c, entity) ==
    IF c.name \in NetworkCalls
    THEN c.arg \in { <<"node", entity.id>>, <<"subject", entity.id>> }
    ELSE c.arg = entity.subject.url

\* C26: an executor task is handed the lists as they are when the user
\* submits, before the optimistic update; they stay as they are while the
\* task waits, whatever is merged or removed meanwhile; and every call the
\* task makes names the entity at a position of those lists for which its
\* map holds actions.
C26_SnapshotTargets ==
    /\ [][ IsSubmitStep =>
             /\ SpawnedTask.notifications = notifications
             /\ SpawnedTask.my_prs = my_prs
             /\ SubSeq(exec_tasks', 1, Len(exec_tasks)) = exec_tasks ]_vars
    /\ [][ (~IsSubmitStep /\ ~IsExecuteStep) => exec_tasks' = exec_tasks ]_vars
    /\ [][ IsExecuteStep =>
             \E i \in 1..Len(exec_tasks) :
                 /\ exec_tasks' = RemoveAt(exec_tasks, i - 1)
                 /\ LET task == exec_tasks[i]
                        total == Len(task.notifications) + Len(task.my_prs)
                    IN \A c \in calls' \ calls :
                          \E index \in DOMAIN task.commands \cap 1..total :
                              CallNames(c, SnapshotEntity(task, index))
         ]_vars

\* A call to mark notification n1 as read is on record, made for the task
\* the user submitted when n1 was first in the list, and a refresh merged
\* since then has put another notification in its place.
C26_Witness ==
    /\ exec_tasks = <<>>
    /\ \E c \in calls : c.name = "mark_as_read" /\ c.arg = <<"node", "n1">>
    /\ notifications # <<>>
    /\ notifications[1].id = "n2"

\* A step in which the key 'R' is handled and that changes the state.
RefreshKeyStep ==
    /\ poller'.pc = poller.pc
    /\ event_rx' = event_rx
    /\ \/ poller' # poller
       \/ status' = RefreshingStatus /\ status # RefreshingStatus

\* C27: refresh requests are coalesced.  At most one request is ever in
\* the refresh channel; handling the key 'R' never waits for the channel:
\* the request is buffered if the channel is empty and dropped if it is
\* full, and the handler sets the status line either way and leaves the
\* poller where it is; and the requests issued while the poller is in one
\* wait or in one fetch cause at most one fetch between them: the fetches
\* begun by a request, with the request that still waits, are never more
\* than the waits and fetches during which requests were issued.
C27_RefreshCoalesced ==
    /\ [](refresh_rx <= 1)
    /\ [](poller.woken + refresh_rx <= poller.bursts)
    /\ []((poller.asked \/ poller.bursts < MaxBursts) => ENABLED KeyRefresh)
    /\ [][ RefreshKeyStep
           => /\ refresh_rx' = IF refresh_rx = 0 THEN 1 ELSE refresh_rx
              /\ status' = RefreshingStatus /\ ~status_sticky'
              /\ notifications' = notifications /\ my_prs' = my_prs ]_vars
    /\ [][ poller'.woken # poller.woken
           => /\ poller'.woken = poller.woken + 1
              /\ refresh_rx' = refresh_rx - 1
              /\ poller.pc = "wait" /\ poller'.pc = "fetch" ]_vars

\* A request was dropped, requests were issued during two waits or fetches
\* of the poller, and each of the two bursts has woken the poller once.
C27_Witness ==
    /\ poller.dropped
    /\ poller.bursts = 2
    /\ poller.woken = 2
    /\ refresh_rx = 0

\* C28 as stated: no event that the event loop handles, Review among them,
\* makes the loop call the file system or another program.
C28_LoopNeverCalls == loop_calls = {}

\* C28, amended: the event loop calls the file system and another program
\* only when it handles AppEvent::Review: the step takes the Review event
\* from the channel, looks for the repository directory and, only if the
\* directory is there, runs nvim on the pull request of the request, and the
\* status line says "ReviewPR finished" only if nvim has exited with
\* success.  The calls of the remote service, the browser, the clipboard
\* and the ignore file are made in steps of executor tasks, which take no
\* event from the channel and make no call of the loop's.
C28_LoopRunsReviewOnly ==
    /\ [][ loop_calls' # loop_calls
           => /\ event_rx # <<>>
              /\ Head(event_rx).type = "Review"
              /\ event_rx' = Tail(event_rx)
              /\ calls' = calls
              /\ \A c \in loop_calls' \ loop_calls :
                    \/ c.name = "is_dir" /\ c.arg = RepoDir
                    \/ /\ c.name = "nvim"
                       /\ c.arg = Head(event_rx).request.pr_url
                       /\ LoopCall("is_dir", RepoDir, TRUE) \in loop_calls' ]_vars
    /\ [][ (event_rx # <<>> /\ Head(event_rx).type = "Review"
            /\ event_rx' = Tail(event_rx)
            /\ status' = Some(<<"ReviewPR finished">>))
           => /\ LoopCall("nvim", Head(event_rx).request.pr_url, TRUE) \in loop_calls'
              /\ ~status_sticky' ]_vars
    /\ [][ calls' # calls
           => /\ loop_calls' = loop_calls
              /\ Len(exec_tasks') < Len(exec_tasks)
              /\ Len(event_rx') > Len(event_rx) ]_vars

\* The event loop has run nvim to its end for a Review, and an executor
\* task has made a call for the Read typed on the same line.
C28_Witness ==
    /\ \E c \in loop_calls : c.name = "nvim" /\ c.ok
    /\ \E c \in calls : c.name = "mark_as_read"
    /\ status = Some(<<"ReviewPR finished">>)

\* The subject of the entity at an index of the two lists.
SubjectAt(index) ==
    IF index <= Len(notifications) THEN notifications[index].subject
    ELSE my_prs[index - Len(notifications)].subject

\* The indices an alias letter stands for, by the claim.
AliasIndices(ch) ==
    LET all == 1..(Len(notifications) + Len(my_prs))
        flagged(flag) == { i \in all : flag \in SubjectAt(i).status }
        reviewed(review) == { i \in all : SubjectAt(i).review_status = Some(review) }
    IN CASE ch = "u" -> { i \in 1..Len(notifications) : notifications[i].unread }
         [] ch = "f" -> flagged("Draft")
         [] ch = "m" -> flagged("Merged")
         [] ch = "c" -> flagged("Closed")
         [] ch = "?" -> { i \in reviewed("ReviewRequired") :
                            SubjectAt(i).status \cap {"Draft", "Merged", "Closed"} = {} }
         [] ch = "a" -> reviewed("Approved")
         [] ch = "x" -> reviewed("ChangesRequested")

\* The table of the present lists has been built.
TableBuilt == notification_count = Len(notifications) + Len(my_prs)

\* C29: the alias table built from the lists is exact.  Its letters are
\* among u f m c ? a x; under each letter stand exactly the indices the
\* claim gives it, each once and in ascending order, and a letter with no
\* index has no entry: 'u' the unread notifications and never one of the
\* user's pull requests, 'f' 'm' 'c' the entities whose status has Draft,
\* Merged, Closed (one with two flags under both), '?' those whose review
\* status is ReviewRequired and whose status has none of the three, 'a' and
\* 'x' the Approved and the ChangesRequested.  A letter typed first selects
\* exactly those indices.
C29_AliasTable ==
    TableBuilt
    => /\ DOMAIN targets \subseteq AliasLetters
       /\ \A ch \in AliasLetters :
             IF AliasIndices(ch) = {}
             THEN ch \notin DOMAIN targets
             ELSE /\ ch \in DOMAIN targets
                  /\ Range(targets[ch]) = AliasIndices(ch)
                  /\ \A i, j \in 1..Len(targets[ch]) :
                        i < j => targets[ch][i] < targets[ch][j]
       /\ \A ch \in AliasLetters :
             consumed = <<ch>> => Range(indices) = AliasIndices(ch)

\* A read notification that is a merged draft awaiting review, an unread
\* draft awaiting review and an approved pull request of the user's: '?'
\* has no entry, 'f' has both notifications, 'm' the first, 'u' the second
\* and 'a' the third, and 'f' has been typed.
C29_Witness ==
    /\ TableBuilt
    /\ Len(notifications) = 2 /\ Len(my_prs) = 1
    /\ ~notifications[1].unread
    /\ notifications[1].subject.status = {"Draft", "Merged"}
    /\ notifications[1].subject.review_status = Some("ReviewRequired")
    /\ my_prs[1].subject.review_status = Some("Approved")
    /\ my_prs[1].subject.status = {}
    /\ "?" \notin DOMAIN targets
    /\ targets["f"] = <<1, 2>> /\ targets["m"] = <<1>>
    /\ targets["u"] = <<2>> /\ targets["a"] = <<3>>
    /\ consumed = <<"f">> /\ indices = <<1, 2>>

\* The urls of the user's pull requests on the screen.
VisibleOwnUrls == { my_prs[i].url : i \in 1..Len(my_prs) }

\* C30: no pull request of the user's that is on the screen has its url in
\* the ignore set, after a refresh is merged, after an optimistic update
\* and in every other state; the ignore set never loses a url; and a
\* refresh shows exactly the reported pull requests whose url is not in the
\* ignore set, so that one ignored earlier does not come back.
C30_IgnoredStaysHidden ==
    /\ [](VisibleOwnUrls \cap ignored_prs = {})
    /\ [][ ignored_prs \subseteq ignored_prs' ]_vars
    /\ [][ (event_rx # <<>> /\ Head(event_rx).type = "Data"
            /\ event_rx' = Tail(event_rx))
           => /\ ignored_prs' = ignored_prs
              /\ { my_prs'[i] : i \in 1..Len(my_prs') }
                 = { pr \in Range(Head(event_rx).my_prs) : pr.url \notin ignored_prs } ]_vars
    /\ [][ ignored_prs' # ignored_prs
           => /\ ignored_prs' \ ignored_prs \subseteq VisibleOwnUrls
              /\ Len(exec_tasks') > Len(exec_tasks)
              /\ VisibleOwnUrls' = VisibleOwnUrls \ ignored_prs' ]_vars

\* Pull request pr1 was ignored in this session, and a refresh in which the
\* server reported it with pr2 has just been merged: pr2 alone is shown.
C30_Witness ==
    /\ ignored_prs = {OwnPullUrl("pr1")}
    /\ last_merge # None
    /\ my_prs = <<OwnPullRequest("pr2")>>

\* How many lines of the file read as the url.
LinesOf(file, url) == Cardinality({ i \in 1..Len(file) : trim(file[i]) = url })

\* How many calls have returned the value for the url.
Returned(url, value) ==
    Cardinality({ i \in 1..Len(ignores.returned) :
                    /\ ignores.returned[i].url = url
                    /\ ignores.returned[i].value = value })

\* C31: appending to the ignore list is idempotent and serialized.  However
\* the calls of append_ignored_pr interleave, no url is on more than one
\* line of the file and at most one call returns true for a url; the call
\* that returns true finds the url absent and adds it as one line, a call
\* that returns false finds it present and leaves the file as it is, as
\* does a call that returns an error; and what a load reads grows exactly
\* by the urls for which a call returned true.
C31_AppendIdempotent ==
    /\ [](\A url \in AppendedUrls :
            /\ LinesOf(ignores.file, url) <= 1
            /\ Returned(url, "true") <= 1)
    /\ [][ Len(ignores'.returned) > Len(ignores.returned)
           => LET ret == ignores'.returned[Len(ignores'.returned)]
                  before == read_ignored_prs(ignores.file)
                  after == read_ignored_prs(ignores'.file)
              IN /\ ignores'.returned
                    = Append(ignores.returned, ret)
                 /\ ret.value = "true"
                    => /\ ret.url \notin before
                       /\ ignores'.file = Append(ignores.file, ret.url)
                       /\ after = before \cup {ret.url}
                 /\ ret.value = "false"
                    => /\ ret.url \in before
                       /\ ignores'.file = ignores.file
                 /\ ret.value = "Err" => ignores'.file = ignores.file ]_vars
    /\ [][ ignores'.file # ignores.file
           => Len(ignores'.returned) > Len(ignores.returned) ]_vars

\* Two calls for the url of pr1 were under way at once on a file written by
\* hand: the first to return has returned true, the second false, and a
\* call for the url of pr2, which the file named with blanks around it, has
\* returned false; the file has one line more.
C31_Witness ==
    /\ Len(ignores.returned) = 3
    /\ ignores.returned[1] = AppendReturn(1, OwnPullUrl("pr1"), "true")
    /\ ignores.returned[2] = AppendReturn(2, OwnPullUrl("pr1"), "false")
    /\ ignores.returned[3].url = OwnPullUrl("pr2")
    /\ ignores.returned[3].value = "false"
    /\ ignores.file = <<CommentLine, "", PaddedLine, OwnPullUrl("pr1")>>
    /\ read_ignored_prs(ignores.file) = AppendedUrls

\* C32: a refresh that fails sets a sticky status, and a sticky status
\* outlives the next successful refresh.  The step that handles an Error
\* event sets the status line to the cleaned message and makes it sticky;
\* the step that handles a Data event replaces the lists by what set_data
\* makes of the fetched ones and leaves a sticky status and its stickiness
\* as they are, while a status that is not sticky is cleared.
C32_StickyOutlivesData ==
    /\ [][ (event_rx # <<>> /\ Head(event_rx).type = "Error"
            /\ event_rx' = Tail(event_rx))
           => /\ status' = Some(clean_error_message(Head(event_rx).message))
              /\ status_sticky' ]_vars
    /\ [][ (event_rx # <<>> /\ Head(event_rx).type = "Data"
            /\ event_rx' = Tail(event_rx))
           => LET app == set_data(CurrentAppData, include_read,
                                  Head(event_rx).notifications, Head(event_rx).my_prs)
              IN /\ notifications' = app.notifications
                 /\ my_prs' = app.my_prs
                 /\ status_sticky' = status_sticky
                 /\ status' = IF status_sticky THEN status ELSE None ]_vars

\* The error of a failed fetch is on the status line, sticky, right after a
\* later fetch has put notification n2 on the screen.
C32_Witness ==
    /\ status = Some(<<"502 Bad Gateway">>)
    /\ status_sticky
    /\ last_merge # None
    /\ Len(notifications) = 1 /\ notifications[1].id = "n2"

\* C33: one action character appends its action at most once to each index
\* of the working selection, however often the index was selected: in the
\* step that reads an action character no index gains more than one action.
C33_AppendsOncePerIndex ==
    [][ (Len(consumed') = Len(consumed) + 1
         /\ consumed'[Len(consumed')] \in TypedActions)
        => \A index \in DOMAIN result' :
              Len(ActionsAt(result', index)) <= Len(ActionsAt(result, index)) + 1 ]_vars

\* The positions of the visible notifications that the submitted commands
\* mark for removal: Done or Unsubscribe, or Open or Read while read
\* notifications are not shown.
MarkedNotifications(commands) ==
    { i \in 1..Len(notifications) :
        \E a \in Range(ActionsAt(commands, i)) :
            \/ IsSuppressAction(a)
            \/ a \in {"Open", "Read"} /\ ~include_read }

\* The list without the entries at the marked positions, the rest in order.
RECURSIVE Without(_, _, _)
Without(seq, marked, k) ==
    IF k > Len(seq) THEN <<>>
    ELSE (IF k \in marked THEN <<>> ELSE <<seq[k]>>) \o Without(seq, marked, k + 1)

IdsInOrder(seq) == [i \in 1..Len(seq) |-> seq[i].id]

\* C34: after submit_commands the visible notifications are the previous
\* ones without those marked for removal, the survivors in their order; the
\* user's pull requests are the previous ones without those with
\* Unsubscribe; and every order in which the map's entries may be visited
\* gives these same two lists.
C34_BatchRemoval ==
    [][ IsSubmitStep =>
          LET commands == SubmittedCommands
          IN /\ IdsInOrder(notifications') =
                   IdsInOrder(Without(notifications, MarkedNotifications(commands), 1))
             /\ my_prs' = Without(my_prs, IgnoredPositions(commands), 1)
             /\ \A order \in KeyOrders(DOMAIN commands) :
                   LET app == apply_optimistic_update(CurrentAppData, commands,
                                                      order, include_read, now)
                   IN /\ app.notifications = notifications'
                      /\ app.my_prs = my_prs'
      ]_vars

\* One submission has just removed the first and the third of three
\* notifications, or the first and the third of three pull requests: the
\* second is all that is left of that list.
C34_Witness ==
    /\ exec_tasks # <<>>
    /\ LET task == exec_tasks[Len(exec_tasks)]
       IN /\ Len(task.notifications) = 3
          /\ Len(task.my_prs) = 3
          /\ \/ /\ DOMAIN task.commands = {1, 3}
                /\ notifications = <<task.notifications[2]>>
                /\ my_prs = task.my_prs
             \/ /\ DOMAIN task.commands = {4, 6}
                /\ my_prs = <<task.my_prs[2]>>
                /\ notifications = task.notifications

\* What a global index names in the lists on the screen.
IndexKind(index) ==
    IF index \in 1..Len(notifications) THEN "Notification"
    ELSE IF index \in (Len(notifications) + 1)..(Len(notifications) + Len(my_prs))
    THEN "MyPullRequest"
    ELSE "Nothing"

\* The lists after an optimistic update with Unsubscribe for one index.
UpdatedFor(index) ==
    apply_optimistic_update(CurrentAppData, (index :> <<"Unsubscribe">>), <<index>>,
                            include_read, now)

\* What the executor copies to the clipboard when handed Yank for one index.
YankedFor(index) ==
    LET commands == (index :> <<"Yank">>)
        outcome == [sp \in spawned_actions(commands, notifications, my_prs) |->
                       [failing |-> 0, panicked |-> FALSE]]
    IN { c.arg : c \in execute_commands(commands, notifications, my_prs,
                                        <<index>>, outcome).calls }

\* C35: with n notifications and p pull requests on the screen, the action
\* filter, the executor and the optimistic update take an index i in 1..n
\* for notification i-1 and an index in n+1..n+p for pull request i-n-1, and
\* take 0 and every index above n+p for nothing; the alias table holds only
\* indices in 1..n+p, each under a letter that its entity has by that
\* numbering.
C35_SameResolution ==
    LET n == Len(notifications)
        p == Len(my_prs)
        table == build_target_map(notifications, my_prs)
    IN /\ \A index \in 0..(n + p + 2) :
             LET shown == pending_entry(index, notifications, my_prs)
                 entry == entry_for_index(index, notifications, my_prs)
                 app == UpdatedFor(index)
             IN CASE IndexKind(index) = "Notification" ->
                       /\ shown # None /\ shown[1].entry = "Notification"
                       /\ entry = Some(EntrySnapshot("Notification", notifications[index]))
                       /\ YankedFor(index) = {notifications[index].subject.url}
                       /\ IdsInOrder(app.notifications) =
                             IdsInOrder(Without(notifications, {index}, 1))
                       /\ app.my_prs = my_prs
                  [] IndexKind(index) = "MyPullRequest" ->
                       /\ shown # None /\ shown[1].entry = "MyPullRequest"
                       /\ entry = Some(EntrySnapshot("MyPullRequest", my_prs[index - n]))
                       /\ YankedFor(index) = {my_prs[index - n].url}
                       /\ app.notifications = notifications
                       /\ app.my_prs = Without(my_prs, {index - n}, 1)
                       /\ app.ignored_prs = ignored_prs \cup {my_prs[index - n].url}
                  [] OTHER ->
                       /\ shown = None
                       /\ entry = None
                       /\ YankedFor(index) = {}
                       /\ app = CurrentAppData
       /\ \A ch \in DOMAIN table :
             \A k \in 1..Len(table[ch]) :
                /\ table[ch][k] \in 1..(n + p)
                /\ table[ch][k] \in AliasIndices(ch)

\* The merged notification and the merged pull request, second of three
\* each, were selected by their letter and unsubscribed in one submission:
\* both are gone from the lists, the url of the pull request is ignored, and
\* the executor has run both actions and reported them.
C35_Witness ==
    /\ IdsInOrder(notifications) = <<"n1", "n3">>
    /\ IdsInOrder(my_prs) = <<"pr1", "pr3">>
    /\ ignored_prs = {OwnPullUrl("pr2")}
    /\ exec_tasks = <<>>
    /\ event_rx # <<>>
    /\ Head(event_rx).type = "CommandResult"
    /\ Head(event_rx).summary.succeeded = 2

\* The calls of record `made` with this name and argument.
CallsOf(made, name, arg) == { c \in made : c.name = name /\ c.arg = arg }

\* C36: for every notification of the snapshot an executor task was given,
\* if Read is not among its actions, mark-read is called for it only if
\* Open is, the snapshot has it unread and the browser was launched on its
\* url with success; unsubscribe is called for it only if Unsubscribe is
\* among its actions and it has a subject id; and if Done is not among its
\* actions, mark-done is called for it only if Unsubscribe is and no
\* unsubscribe call for it failed.
C36_CallsInOrder ==
    [][ IsExecuteStep =>
          LET task == exec_tasks[1]
              made == calls' \ calls
          IN \A i \in 1..Len(task.notifications) :
                LET n == task.notifications[i]
                    actions == Range(ActionsAt(task.commands, i))
                IN /\ ("Read" \notin actions
                        /\ CallsOf(made, "mark_as_read", node_id(n)) # {})
                       => /\ "Open" \in actions
                          /\ n.unread
                          /\ \E c \in CallsOf(made, "open_in_browser", n.subject.url) : c.ok
                   /\ (\E c \in made : c.name = "unsubscribe" /\ c.arg[2] = n.id)
                       => /\ "Unsubscribe" \in actions
                          /\ subject_id(n) # None
                   /\ ("Done" \notin actions
                        /\ CallsOf(made, "mark_as_done", node_id(n)) # {})
                       => /\ "Unsubscribe" \in actions
                          /\ \A c \in made :
                                (c.name = "unsubscribe" /\ c.arg[2] = n.id) => c.ok
      ]_vars

\* Unsubscribe was run alone on a notification the server sent no subject
\* for: mark-done was called and unsubscribe was not; or Open was run alone
\* on an unread notification and mark-read followed the browser.
C36_Witness ==
    /\ exec_tasks = <<>>
    /\ \/ /\ notifications = SubjectlessScreen.notifications
          /\ { c.name : c \in calls } = {"mark_as_done"}
       \/ /\ notifications[1].unread
          /\ { c.name : c \in calls } = {"open_in_browser", "mark_as_read"}
          /\ \A c \in calls : c.ok

\* The step closes a run of digits that is not the end of a range.
ClosesRun ==
    /\ consumed' # consumed
    /\ current_digits # <<>>
    /\ range_start = None
    /\ (IsSeparatorChar(LastChar') \/ IsActionChar(LastChar'))

\* What the step added to the selection.
AddedIndices == SubSeq(indices', Len(indices) + 1, Len(indices'))

AllZeros(ds) == \A i \in 1..Len(ds) : ds[i] = "0"

\* The first digit of ds that is not zero; ds is not all zeros.
FirstNonZero(ds) ==
    to_digit(ds[CHOOSE i \in 1..Len(ds) :
                    ds[i] # "0" /\ \A j \in 1..(i - 1) : ds[j] = "0"])

\* No index starts at this remainder: it is empty, all zeros, or its first
\* digit that is not zero exceeds n.
NothingStarts(ds, n) == AllZeros(ds) \/ FirstNonZero(ds) > n

\* The pieces the run falls into: while an index starts at the remainder,
\* the longest prefix with a value in [1, n], leading zeros included.
RECURSIVE Pieces(_, _)
Pieces(ds, n) ==
    IF NothingStarts(ds, n) \/ GoodPrefixLens(ds, n) = {} THEN <<>>
    ELSE LET k == SetMax(GoodPrefixLens(ds, n))
         IN <<SubSeq(ds, 1, k)>> \o Pieces(SubSeq(ds, k + 1, Len(ds)), n)

\* The remainders of a run: its suffixes that are not empty.
Remainders(ds) == { SubSeq(ds, k, Len(ds)) : k \in 1..Len(ds) }

\* C37 as claimed: a remainder of a closed run has no prefix with a value in
\* [1, N] exactly if its first digit exceeds N or it is all zeros.
C37_StopsAtLargeFirstDigit ==
    [][ ClosesRun =>
          \A rest \in Remainders(current_digits) :
              longest_valid_prefix(rest, notification_count) = None
              <=> (to_digit(rest[1]) > notification_count \/ AllZeros(rest)) ]_vars

\* C37: closing a run of digits adds to the selection the values of its
\* pieces and nothing for the digits from the first remainder at which no
\* index starts; each piece counts with its leading zeros absorbed into its
\* value; and a remainder has no prefix with a value in [1, N] exactly if it
\* is all zeros or its first digit that is not zero exceeds N.
C37_SplitStops ==
    [][ ClosesRun =>
          LET pieces == Pieces(current_digits, notification_count)
          IN /\ AddedIndices = [j \in 1..Len(pieces) |-> DigitsValue(pieces[j])]
             /\ \A rest \in Remainders(current_digits) :
                   longest_valid_prefix(rest, notification_count) = None
                   <=> NothingStarts(rest, notification_count) ]_vars

\* "132o" with two entities targets 1 alone: no index starts at the 3, and
\* the 2 behind it adds nothing.
C37_Witness ==
    /\ notification_count = 2
    /\ consumed = <<"1", "3", "2", "o">>
    /\ result = (1 :> <<"Open">>)

\* The step reads an alias character.
ReadsAlias == consumed' # consumed /\ is_target_char(LastChar')

\* The indices the table holds for an alias character.
GroupOf(ch) == IF ch \in DOMAIN targets THEN targets[ch] ELSE <<>>

\* The selection an alias is added to: nothing right after an action,
\* otherwise the selection with the digits typed so far closed into it.
SelectionBefore ==
    IF after_action THEN <<>>
    ELSE finalize_pending(PendingOf(CurrentParserState), notification_count).indices

\* C38: an alias character read right after an action character leaves a
\* selection of the alias's indices alone; read at any other point it
\* leaves the selection as it was, followed by those of the alias's indices
\* that were not in it, each once; an alias that the table does not hold
\* adds no index.  The recorded actions do not change.
C38_AliasSelection ==
    [][ ReadsAlias =>
          LET group == GroupOf(LastChar')
              before == SelectionBefore
              added == SubSeq(indices', Len(before) + 1, Len(indices'))
          IN /\ SubSeq(indices', 1, Len(before)) = before
             /\ Range(added) = Range(group) \ Range(before)
             /\ \A i \in Range(added) : Count(indices', i) = 1
             /\ after_action => Range(indices') = Range(group)
             /\ LastChar' \notin DOMAIN targets => indices' = before
             /\ result' = result
             /\ ~after_action'
      ]_vars

\* "3dum" with twelve entities, 'u' standing for 1 and 3 and 'm' for 3 and
\* 12: Done went to 3, 'u' began a new selection and 'm' added 12 to it.
C38_Witness ==
    /\ notification_count = 12
    /\ consumed = <<"3", "d", "u", "m">>
    /\ result = (3 :> <<"Done">>)
    /\ indices = <<1, 3, 12>>

\* The step is the event loop taking an Error event from the channel.
IsErrorStep ==
    /\ event_rx # <<>>
    /\ Head(event_rx).type = "Error"
    /\ event_rx' = Tail(event_rx)

\* C39: the step that handles an Error event leaves the visible
\* notifications, the user's pull requests, the override ledger, the ignore
\* set, the command text and its pending map as they were, and does not
\* touch the poller or the executor tasks; and the poller never stops: when
\* it waits its interval can elapse, and when it has fetched it can hand the
\* result over as soon as the channel has room.
C39_ErrorChangesStatusOnly ==
    /\ [][ IsErrorStep =>
              UNCHANGED <<notifications, my_prs, notification_overrides, ignored_prs,
                          input, pending, include_read, exec_tasks, refresh_rx,
                          poller>> ]_vars
    /\ [](poller.pc = "wait" => ENABLED PollerTick)
    /\ []((poller.pc = "fetch" /\ Len(event_rx) < EventCapacity) => ENABLED PollerSend)

\* A fetch failed while "1-2q" stood on the command line for the second
\* time, the first having been submitted for the notification and the first
\* pull request; the error is on the status line, and the data of a later
\* fetch waits in the channel.
C39_Witness ==
    /\ status = Some(<<"502 Bad Gateway">>)
    /\ status_sticky
    /\ input = <<"1", "-", "2", "q">>
    /\ pending = (1 :> <<"Unsubscribe">>)
    /\ notification_overrides # EmptyMap
    /\ ignored_prs # {}
    /\ event_rx # <<>>
    /\ Head(event_rx).type = "Data"

====
